---- MODULE Spec2Model ----
(***************************************************************************)
(* Telemetry bootstrap, correlated logging and shutdown of the go-app      *)
(* service (package telemetry).                                            *)
(*                                                                         *)
(*   Setup / shutdown closure : src/unnamed/part_005, lines 417-577        *)
(*   Log / verbosity gate     : src/unnamed/part_004, lines 238-336        *)
(*   multiHandler             : src/unnamed/part_005, lines 618-654        *)
(*   main                     : src/go-app/main.go, lines 25-134           *)
(*   UserService              : src/unnamed/part_014, lines 36-412         *)
(*   UserRepository (memory)  : src/unnamed/part_002, lines 16-285         *)
(*   entity.User, DomainError : src/go-app/internal/domain                 *)
(*                                                                         *)
(* The provider Shutdown methods, the context deadline and the span are    *)
(* the environment: a teardown returns nil or an error of its own, and it  *)
(* can report the deadline error once the deadline of ctx has passed.      *)
(***************************************************************************)
EXTENDS Integers, Sequences, FiniteSets, TLC

VARIABLES
    setupState,     \* "none" | "ok" | "failed": how Setup returned
    setupErr,       \* the error value returned by Setup
    shutdowns,      \* the slice `shutdowns` captured by the shutdown closure
    conn,           \* the shared gRPC client connection: "none" | "open" (no code closes it)
    globalsSet,     \* otel.SetTracerProvider & co. have run
    slogDefault,    \* what slog.SetDefault installed: "go" | "otel" | "multi"
    cfg,            \* the configuration Setup was called with
    tel,            \* the *Telemetry Setup returned: "nil" | "handle"
    connCreds,      \* transport credentials of the gRPC connection: "none" | "insecure" | "tls"
    exporters,      \* per signal, the exporter Setup constructed and its options
    res,            \* the attributes of the resource Setup built
    telLogVerbosity, \* the field LogVerbosity of the *Telemetry Setup returned
    pc,             \* position of the running shutdown(ctx) call
    i,              \* loop index of the shutdown closure (1-based)
    err,            \* the local `err` of the shutdown closure
    ctxExpired,     \* the deadline of the ctx passed to shutdown has passed
    calls,          \* number of shutdown(ctx) calls started
    invoked,        \* teardown invocations of the running (else the last) call: [fn, ret]
    total,          \* per teardown, its invocations over all shutdown(ctx) calls
    returned,       \* number of shutdown(ctx) calls that have returned
    result,         \* value returned by the last finished shutdown(ctx) call
    logVerbosity,   \* package variable logVerbosity (guarded by mu)
    logPc,          \* position of the running Log call: "idle" | "gated"
    cur,            \* arguments and locals of the running Log call
    span,           \* the recording span carried by ctx
    sink,           \* records handed to slog (the log sink)
    conv,           \* number of attrsToLogAttrs calls
    logCalls,       \* number of Log calls started
    last,           \* snapshot taken when the last Log call started
    mhState,        \* "none" | "built": a multiHandler has been constructed
    loggers,        \* the field loggers of the multiHandler
    derived,        \* the loggers of the handler WithAttrs / WithGroup returned last
    delivered,      \* the child Handle calls of the last Handle call: [child, record, err]
    mhRet,          \* the last call on the multiHandler and what it returned
    mainPc,         \* position of main: "setup" | an init step | "fatal" | "serving" |
                    \* "stop" | "stopping" | "returning" | "exited"
    exitBy,         \* how the process ended: "" | "log.Fatalf" | "os.Exit" | "return"
    defers,         \* the deferred calls of main, in the order they were registered
    signalled,      \* the interrupt signal has arrived (ctx of main is done)
    srvPc,          \* the server goroutine of main: "none" | "started" | "calling" | "listen" |
                    \* "serving" | "EADDRINUSE" | "listen error" | "exiting" | "done"
    kafkaPc,        \* the Kafka worker goroutine: "none" | "polling" | "handled" |
                    \* "cancelled" | "done"
    server,         \* the field server of the HTTP handler: "nil" | "set" | "shutdown"
    req,            \* the request the server is handling, and its position
    gmu,            \* the RWMutex mu of the verbosity gate: [writer, readers]
    gor,            \* per goroutine, the Log call it runs: position and locals
    setPc,          \* the SetLogVerbosity call in flight: position and argument
    heap,           \* the *entity.User objects the repository has stored, by reference
    users,          \* UserRepository.users: user id -> reference into heap
    nextID,         \* UserRepository.nextID
    errCtx,         \* per predefined domain error, its Context map
    rmu,            \* the RWMutex mu of the UserRepository: [writer, readers]
    callers,        \* per goroutine, the UserService call it runs or ran last
    userCalls,      \* number of UserService calls started
    crashed         \* the runtime has stopped the process (fatal error)

shutVars == <<setupState, setupErr, shutdowns, conn, globalsSet, slogDefault,
              cfg, tel, connCreds, exporters, res, telLogVerbosity,
              pc, i, err, ctxExpired, calls, invoked, total, returned, result>>
logVars  == <<logVerbosity, logPc, cur, span, sink, conv, logCalls, last>>
multiVars == <<mhState, loggers, derived, delivered, mhRet>>
mainVars == <<mainPc, exitBy, defers, signalled, srvPc, kafkaPc, server, req>>
\* the variables outside telemetry, and those of them that main, its server
\* goroutine and the Kafka worker do not touch
gateVars == <<gmu, gor, setPc>>
userVars == <<heap, users, nextID, errCtx, rmu, callers, crashed, userCalls>>
appVars  == <<mainVars, gateVars, userVars>>
mainOthers == <<gateVars, userVars, req>>
vars     == <<shutVars, logVars, multiVars, appVars>>

----------------------------------------------------------------------------
(* Bounds *)

MaxShutdownCalls == 2
MaxLogCalls == 2
MaxChildren == 2
MaxGoroutines == 2
MaxUsers == 2
MaxCallers == 2
MaxRequests == 1
MaxUserCalls == 2

----------------------------------------------------------------------------
(* Error values.  An error is nil, a leaf error, or the joinError built by *)
(* errors.Join, which keeps the list of the errors it joins.               *)

Nil == [kind |-> "nil", name |-> "", errs |-> <<>>]
Leaf(n) == [kind |-> "leaf", name |-> n, errs |-> <<>>]
Pending == [kind |-> "pending", name |-> "", errs |-> <<>>]
DeadlineExceeded == Leaf("context deadline exceeded")

NonNil(s) == SelectSeq(s, LAMBDA e : e # Nil)

\* a mutant of Join: the closure assigns the last result instead of joining
JoinOverwrite(a, b) == b

\* errors.Join(err, x) as called at part_005:422: nil values are discarded,
\* nil is returned when nothing is left, else a joinError over the rest
Join(a, b) ==
    IF NonNil(<<a, b>>) = <<>> THEN Nil
    ELSE [kind |-> "join", name |-> "", errs |-> NonNil(<<a, b>>)]

RECURSIVE Is(_, _)
\* errors.Is(e, target) over the Unwrap() []error tree of a joinError
Is(e, target) ==
    \/ e = target
    \/ /\ e.kind = "join"
       /\ \E k \in 1..Len(e.errs) : Is(e.errs[k], target)

RECURSIVE FlattenSeq(_)
RECURSIVE Flatten(_)
\* the leaf errors of an error value, in the order Error() prints them
Flatten(e) ==
    IF e.kind = "nil" THEN <<>>
    ELSE IF e.kind = "join" THEN FlattenSeq(e.errs)
    ELSE <<e>>
FlattenSeq(s) ==
    IF s = <<>> THEN <<>> ELSE Flatten(Head(s)) \o FlattenSeq(Tail(s))

----------------------------------------------------------------------------
(* Setup *)

Protocols == {"grpc", "http", ""}
FailPoints == {"none", "resource", "conn", "trace", "metric", "log",
               "counter", "runtime"}

\* part_005:443-446
Protocol(cfgProtocol) == IF cfgProtocol = "" THEN "http" ELSE cfgProtocol

\* the teardown callables Setup registers: the Shutdown method of each provider
Teardowns == {"tracer", "meter", "logger"}

\* a mutant of RegisterShutdowns: the providers are appended logger first
RegisterShutdownsReversed(s) == s \o <<"logger", "meter", "tracer">>

\* part_005:542
RegisterShutdowns(s) == s \o <<"tracer", "meter", "logger">>

\* the steps of Setup that can fail, in the order Setup runs them
SetupSteps(protocol) ==
    IF protocol = "grpc"
    THEN <<"resource", "conn", "trace", "metric", "log", "counter", "runtime">>
    ELSE <<"resource", "trace", "metric", "log", "counter", "runtime">>

Index(s, x) == IF \E k \in 1..Len(s) : s[k] = x
               THEN CHOOSE k \in 1..Len(s) : s[k] = x
               ELSE 0

\* TRUE when Setup got past step `step` (it ran and did not fail)
Passed(protocol, failAt, step) ==
    LET steps == SetupSteps(protocol) IN
    /\ Index(steps, step) > 0
    /\ \/ Index(steps, failAt) = 0
       \/ Index(steps, step) < Index(steps, failAt)

\* the signals Setup builds an exporter for
Signals == {"trace", "metric", "log"}

\* the error Setup hands to handleErr for a failure at `failAt`: the words of
\* the message Setup puts in front of the cause (none when the cause is
\* returned as it is) and the underlying cause
SetupError(protocol, failAt) ==
    CASE failAt = "resource" ->
            [msg |-> <<"failed", "to", "create", "resource">>, cause |-> failAt]
      [] failAt = "conn" -> [msg |-> <<>>, cause |-> failAt]
      [] failAt \in Signals ->
            IF protocol = "grpc"
            THEN [msg |-> <<failAt, "exporter", "gRPC">>, cause |-> failAt]
            ELSE [msg |-> <<>>, cause |-> failAt]
      [] failAt = "counter" ->
            [msg |-> <<"failed", "to", "create", "user", "counter">>, cause |-> failAt]
      [] failAt = "runtime" -> [msg |-> <<>>, cause |-> failAt]
      [] OTHER -> [msg |-> <<>>, cause |-> ""]

NoError == [msg |-> <<>>, cause |-> ""]

\* strings of the configuration as byte sequences: "", "u", "ab" / "", "p", "pw"
Usernames == {<<>>, <<117>>, <<97, 98>>}
Passwords == {<<>>, <<112>>, <<112, 119>>}

\* config.OtelConfig, the fields Setup uses
Configs == [ServiceName : {"go-app"}, ServiceVersion : {"1.0.0"},
            ServiceNamespace : {"", "ns"}, LogVerbosity : 0..2,
            Protocol : Protocols, LogOutput : {"stdout", "otel"},
            Insecure : BOOLEAN, Username : Usernames, Password : Passwords]
NoConfig == [ServiceName |-> "", ServiceVersion |-> "", ServiceNamespace |-> "",
             LogVerbosity |-> 0,
             Protocol |-> "", LogOutput |-> "", Insecure |-> FALSE,
             Username |-> <<>>, Password |-> <<>>]

\* no resource has been built
NoResource == {}

\* part_005:431-438: resource.New with the three service attributes; each
\* attribute is a key with a string value, whatever the string is
NewResource(c) ==
    {[Key |-> "service.name", Value |-> c.ServiceName],
     [Key |-> "service.version", Value |-> c.ServiceVersion],
     [Key |-> "service.namespace", Value |-> c.ServiceNamespace]}

\* the character of the standard base64 alphabet for the 6-bit value k
Base64Char(k) ==
    IF k < 26 THEN 65 + k
    ELSE IF k < 52 THEN 97 + (k - 26)
    ELSE IF k < 62 THEN 48 + (k - 52)
    ELSE IF k = 62 THEN 43 ELSE 47

RECURSIVE EncodeToString(_)
\* base64.StdEncoding.EncodeToString: 3 bytes give 4 characters, the rest is
\* padded with '='
EncodeToString(b) ==
    IF Len(b) = 0 THEN <<>>
    ELSE IF Len(b) = 1
    THEN <<Base64Char(b[1] \div 4), Base64Char((b[1] % 4) * 16), 61, 61>>
    ELSE IF Len(b) = 2
    THEN <<Base64Char(b[1] \div 4),
           Base64Char((b[1] % 4) * 16 + b[2] \div 16),
           Base64Char((b[2] % 16) * 4), 61>>
    ELSE <<Base64Char(b[1] \div 4),
           Base64Char((b[1] % 4) * 16 + b[2] \div 16),
           Base64Char((b[2] % 16) * 4 + b[3] \div 64),
           Base64Char(b[3] % 64)>> \o EncodeToString(SubSeq(b, 4, Len(b)))

\* the bytes of "Basic "
BasicPrefix == <<66, 97, 115, 105, 99, 32>>

\* a mutant of BasicAuthHeader: user name and password are joined without ':'
BasicAuthHeaderNoColon(username, password) ==
    BasicPrefix \o EncodeToString(username \o password)

\* part_005:486-489: "Basic " + base64(username + ":" + password)
BasicAuthHeader(username, password) ==
    BasicPrefix \o EncodeToString(username \o <<58>> \o password)

\* part_005:485-494: the Authorization header given to the HTTP exporters,
\* empty when no header option is added
HTTPHeaders(c) ==
    IF c.Username # <<>> /\ c.Password # <<>>
    THEN BasicAuthHeader(c.Username, c.Password)
    ELSE <<>>

\* part_005:458: the credentials the gRPC connection is opened with
TransportCredentials(c) == "insecure"

NoExporter == [built |-> FALSE, transport |-> "", authorization |-> <<>>,
               insecure |-> FALSE]

\* the exporter of a signal as Setup constructs it (part_005:463-477, 480-521)
NewExporter(c, protocol) ==
    IF protocol = "grpc"
    THEN [built |-> TRUE, transport |-> "grpc", authorization |-> <<>>,
          insecure |-> FALSE]
    ELSE [built |-> TRUE, transport |-> "http", authorization |-> HTTPHeaders(c),
          insecure |-> c.Insecure]

\* part_005:563-565: when runtime.Start fails, slog.Error hands a record to
\* the handler setupSlog has installed (part_005:551); the slog calls before
\* setupSlog go to the handler of the Go runtime, which is not followed
RuntimeStartFailed(sk, protocol, failAt) ==
    IF failAt = "runtime"
    THEN Append(sk, [level |-> "ERROR", msg |-> "Failed to start runtime metrics",
                     attrs |-> <<[key |-> "err",
                                  any |-> <<SetupError(protocol, failAt).cause>>]>>])
    ELSE sk

\* Setup(ctx, cfg): one call, failing at step failAt or not at all
Setup(c, failAt) ==
    LET protocol == Protocol(c.Protocol)
        failed == Index(SetupSteps(protocol), failAt) > 0
    IN
    /\ setupState = "none"
    /\ cfg' = c
    /\ setupState' = IF failed THEN "failed" ELSE "ok"
    /\ setupErr' = IF failed THEN SetupError(protocol, failAt) ELSE NoError
    /\ tel' = IF failed THEN "nil" ELSE "handle"
    /\ telLogVerbosity' = IF failed THEN telLogVerbosity ELSE c.LogVerbosity
    /\ res' = IF Passed(protocol, failAt, "resource") THEN NewResource(c) ELSE NoResource
    /\ conn' = IF Passed(protocol, failAt, "conn") THEN "open" ELSE "none"
    /\ connCreds' = IF Passed(protocol, failAt, "conn")
                    THEN TransportCredentials(c) ELSE "none"
    /\ exporters' = [sig \in Signals |->
                        IF Passed(protocol, failAt, sig)
                        THEN NewExporter(c, protocol) ELSE NoExporter]
    \* providers, registration, globals and slog come after the exporters
    /\ shutdowns' = IF Passed(protocol, failAt, "log")
                    THEN RegisterShutdowns(shutdowns) ELSE shutdowns
    /\ globalsSet' = Passed(protocol, failAt, "log")
    /\ slogDefault' = IF ~Passed(protocol, failAt, "log") THEN slogDefault
                      ELSE IF c.LogOutput = "otel" THEN "otel" ELSE "multi"
    /\ sink' = RuntimeStartFailed(sink, protocol, failAt)
    /\ UNCHANGED <<pc, i, err, ctxExpired, calls, invoked, total, returned, result>>
    /\ UNCHANGED <<logVerbosity, logPc, cur, span, conv, logCalls, last>>
    /\ UNCHANGED <<multiVars, appVars>>

----------------------------------------------------------------------------
(* The shutdown closure, part_005:419-425 *)

\* shutdown(ctx) is called: var err error; i := len(shutdowns) - 1
ShutdownCall ==
    /\ setupState # "none"
    /\ pc = "idle"
    /\ calls < MaxShutdownCalls
    /\ calls' = calls + 1
    /\ err' = Nil
    /\ i' = Len(shutdowns)
    /\ ctxExpired' = FALSE
    /\ pc' = "loop"
    /\ invoked' = <<>>
    /\ UNCHANGED <<cfg, tel, connCreds, exporters, res, telLogVerbosity>>
    /\ UNCHANGED <<setupState, setupErr, shutdowns, conn, globalsSet,
                   slogDefault, total, returned, result>>
    /\ UNCHANGED <<logVars, multiVars, appVars>>

\* loop condition holds: shutdowns[i](ctx) is called
TeardownInvoke ==
    /\ pc = "loop"
    /\ i >= 1
    /\ invoked' = Append(invoked, [fn |-> shutdowns[i], ret |-> Pending])
    /\ total' = [total EXCEPT ![shutdowns[i]] = @ + 1]
    /\ pc' = "inflight"
    /\ UNCHANGED <<cfg, tel, connCreds, exporters, res, telLogVerbosity>>
    /\ UNCHANGED <<setupState, setupErr, shutdowns, conn, globalsSet,
                   slogDefault, i, err, ctxExpired, calls, returned, result>>
    /\ UNCHANGED <<logVars, multiVars, appVars>>

\* what the teardown in flight can return
TeardownReturns(fn, expired) ==
    {Nil, Leaf(fn)} \cup (IF expired THEN {DeadlineExceeded} ELSE {})

\* shutdowns[i](ctx) returns r: err = errors.Join(err, r); i--
TeardownReturn(r) ==
    /\ pc = "inflight"
    /\ r \in TeardownReturns(shutdowns[i], ctxExpired)
    /\ invoked' = [invoked EXCEPT ![Len(invoked)].ret = r]
    /\ err' = Join(err, r)
    /\ i' = i - 1
    /\ pc' = "loop"
    /\ UNCHANGED <<cfg, tel, connCreds, exporters, res, telLogVerbosity>>
    /\ UNCHANGED <<setupState, setupErr, shutdowns, conn, globalsSet,
                   slogDefault, ctxExpired, calls, total, returned, result>>
    /\ UNCHANGED <<logVars, multiVars, appVars>>

\* a mutant of ShutdownReturn: the loop stops at the first error
ShutdownReturnOnError ==
    /\ pc = "loop"
    /\ (i < 1 \/ err # Nil)
    /\ result' = err
    /\ returned' = returned + 1
    /\ pc' = "idle"
    /\ UNCHANGED <<cfg, tel, connCreds, exporters, res, telLogVerbosity>>
    /\ UNCHANGED <<setupState, setupErr, shutdowns, conn, globalsSet,
                   slogDefault, i, err, ctxExpired, calls, invoked, total>>
    /\ UNCHANGED <<logVars, multiVars, appVars>>

\* a mutant of ShutdownReturn: the loop stops once ctx is done
ShutdownReturnOnDeadline ==
    /\ pc = "loop"
    /\ (i < 1 \/ ctxExpired)
    /\ result' = err
    /\ returned' = returned + 1
    /\ pc' = "idle"
    /\ UNCHANGED <<cfg, tel, connCreds, exporters, res, telLogVerbosity>>
    /\ UNCHANGED <<setupState, setupErr, shutdowns, conn, globalsSet,
                   slogDefault, i, err, ctxExpired, calls, invoked, total>>
    /\ UNCHANGED <<logVars, multiVars, appVars>>

\* loop condition fails: return err
ShutdownReturn ==
    /\ pc = "loop"
    /\ i < 1
    /\ result' = err
    /\ returned' = returned + 1
    /\ pc' = "idle"
    /\ UNCHANGED <<cfg, tel, connCreds, exporters, res, telLogVerbosity>>
    /\ UNCHANGED <<setupState, setupErr, shutdowns, conn, globalsSet,
                   slogDefault, i, err, ctxExpired, calls, invoked, total>>
    /\ UNCHANGED <<logVars, multiVars, appVars>>

\* the deadline of the ctx given to shutdown passes while the call runs
DeadlineExpires ==
    /\ pc \in {"loop", "inflight"}
    /\ ~ctxExpired
    /\ ctxExpired' = TRUE
    /\ UNCHANGED <<cfg, tel, connCreds, exporters, res, telLogVerbosity>>
    /\ UNCHANGED <<setupState, setupErr, shutdowns, conn, globalsSet,
                   slogDefault, pc, i, err, calls, invoked, total, returned, result>>
    /\ UNCHANGED <<logVars, multiVars, appVars>>

----------------------------------------------------------------------------
(* Verbosity gate and Log, part_004:238-336 *)

LevelInfo == "info"
LevelWarn == "warn"
LevelError == "error"
\* LogLevel is a string type: any other value is an unrecognized severity
LogLevels == {LevelInfo, LevelWarn, LevelError, "debug"}

VerbosityArgs == -1..3
Messages == {"m"}
NoErr == ""
Errs == {NoErr, "boom"}
\* attribute.KeyValue values: a key and a typed value
AttrLists == {<<>>, <<[Key |-> "k", Type |-> "INT64", Value |-> 7]>>}

\* SetLogVerbosity(verbosity): mu.Lock(); logVerbosity = verbosity
SetLogVerbosity(verbosity) ==
    /\ logVerbosity' = verbosity
    /\ UNCHANGED <<logPc, cur, span, sink, conv, logCalls, last>>
    /\ UNCHANGED <<shutVars, multiVars, appVars>>

\* GetLogVerbosity(): mu.RLock(); return logVerbosity
GetLogVerbosity == logVerbosity

\* a mutant of shouldLogMessage: warnings need the verbose level
shouldLogMessageStrict(level, verbosity) ==
    CASE level = LevelError -> TRUE
      [] level = LevelWarn -> verbosity >= 2
      [] level = LevelInfo -> verbosity >= 2
      [] OTHER -> verbosity >= 2

\* shouldLogMessage(level) with verbosity := GetLogVerbosity()
shouldLogMessage(level, verbosity) ==
    CASE level = LevelError -> TRUE
      [] level = LevelWarn -> verbosity >= 1
      [] level = LevelInfo -> verbosity >= 2
      [] OTHER -> verbosity >= 2

\* attrsToLogAttrs: slog.Any(string(attr.Key), attr.Value.AsInterface())
attrsToLogAttrs(attrs) ==
    [k \in 1..Len(attrs) |-> [key |-> attrs[k].Key, any |-> attrs[k].Value]]

\* a mutant of ConvertAttrs: the attributes are converted on every call
ConvertAttrsAlways(shouldLog, attrs) ==
    [logAttrs |-> attrsToLogAttrs(attrs), calls |-> 1]

\* part_004:291-296: logAttrs is filled only when the record will be logged
ConvertAttrs(shouldLog, attrs) ==
    IF shouldLog
    THEN [logAttrs |-> attrsToLogAttrs(attrs), calls |-> 1]
    ELSE [logAttrs |-> <<>>, calls |-> 0]

\* a mutant of SpanAfterLog: the span is touched only for records that are logged
SpanAfterLogGated(sp, c) ==
    IF ~c.recording \/ ~c.shouldLog THEN sp
    ELSE IF c.level = LevelError
    THEN [sp EXCEPT !.status = "Error", !.description = c.msg,
                    !.errors = IF c.err # NoErr
                               THEN Append(@, [err |-> c.err, attrs |-> c.attrs])
                               ELSE @]
    ELSE [sp EXCEPT !.events = Append(@, [name |-> c.msg, attrs |-> c.attrs])]

\* a mutant of SpanAfterLog: the status is set only together with an error
SpanAfterLogStatusWithErr(sp, c) ==
    IF ~c.recording THEN sp
    ELSE IF c.level = LevelError
    THEN IF c.err # NoErr
         THEN [sp EXCEPT !.status = "Error", !.description = c.msg,
                         !.errors = Append(@, [err |-> c.err, attrs |-> c.attrs])]
         ELSE sp
    ELSE [sp EXCEPT !.events = Append(@, [name |-> c.msg, attrs |-> c.attrs])]

\* a mutant of SpanAfterLog: a non-nil err is recorded at every severity
SpanAfterLogRecordsErr(sp, c) ==
    IF ~c.recording THEN sp
    ELSE IF c.level = LevelError
    THEN [sp EXCEPT !.status = "Error", !.description = c.msg,
                    !.errors = IF c.err # NoErr
                               THEN Append(@, [err |-> c.err, attrs |-> c.attrs])
                               ELSE @]
    ELSE [sp EXCEPT !.events = Append(@, [name |-> c.msg, attrs |-> c.attrs]),
                    !.errors = IF c.err # NoErr
                               THEN Append(@, [err |-> c.err, attrs |-> c.attrs])
                               ELSE @]

\* the span calls of Log (part_004:300-305, 313-315, 320-322) for call c
SpanAfterLog(sp, c) ==
    IF ~c.recording THEN sp
    ELSE IF c.level = LevelError
    THEN [sp EXCEPT !.status = "Error", !.description = c.msg,
                    !.errors = IF c.err # NoErr
                               THEN Append(@, [err |-> c.err, attrs |-> c.attrs])
                               ELSE @]
    ELSE [sp EXCEPT !.events = Append(@, [name |-> c.msg, attrs |-> c.attrs])]

\* the slog function each case of the switch calls
SlogLevel(level) ==
    CASE level = LevelError -> "ERROR"
      [] level = LevelWarn -> "WARN"
      [] OTHER -> "INFO"

\* the slog calls of Log (part_004:306-311, 316-318, 323-325) for call c
SinkAfterLog(sk, c, logAttrs) ==
    IF ~c.shouldLog THEN sk
    ELSE Append(sk, [level |-> SlogLevel(c.level), msg |-> c.msg,
                     attrs |-> IF c.level = LevelError /\ c.err # NoErr
                               THEN Append(logAttrs, [key |-> "error", any |-> c.err])
                               ELSE logAttrs])

\* Log(ctx, level, msg, err, attrs...) up to and including the read of the
\* verbosity level in shouldLogMessage (part_004:288-292)
LogCall(level, msg, e, attrs, recording) ==
    /\ logPc = "idle"
    /\ logCalls < MaxLogCalls
    /\ logCalls' = logCalls + 1
    /\ cur' = [level |-> level, msg |-> msg, err |-> e, attrs |-> attrs,
               recording |-> recording,
               shouldLog |-> shouldLogMessage(level, GetLogVerbosity),
               verbosity |-> GetLogVerbosity]
    /\ last' = [span |-> span, sink |-> Len(sink), conv |-> conv]
    /\ logPc' = "gated"
    /\ UNCHANGED <<logVerbosity, span, sink, conv>>
    /\ UNCHANGED <<shutVars, multiVars, appVars>>

\* the rest of Log (part_004:294-327)
LogBody ==
    /\ logPc = "gated"
    /\ conv' = conv + ConvertAttrs(cur.shouldLog, cur.attrs).calls
    /\ span' = SpanAfterLog(span, cur)
    /\ sink' = SinkAfterLog(sink, cur, ConvertAttrs(cur.shouldLog, cur.attrs).logAttrs)
    /\ logPc' = "idle"
    /\ UNCHANGED <<logVerbosity, cur, logCalls, last>>
    /\ UNCHANGED <<shutVars, multiVars, appVars>>

----------------------------------------------------------------------------
(* multiHandler, part_005:618-654 *)

\* slog.LevelDebug, LevelInfo, LevelWarn, LevelError
SlogLevels == {-4, 0, 4, 8}
\* the minimum level a child handler is built with (setupSlog: LevelInfo)
ChildMinLevels == {0, 8}
Records == {[level |-> 0, msg |-> "m"], [level |-> 8, msg |-> "e"]}
AttrArgs == {<<>>, <<[key |-> "k", any |-> 7]>>}
GroupArgs == {"g", "h"}

\* a child logger's handler: Handle fails or not, ops are the WithAttrs and
\* WithGroup calls it was derived by
ChildNames == <<"h1", "h2", "h3", "h4">>
NewChild(k, minLevel, fails) ==
    [name |-> ChildNames[k], minLevel |-> minLevel, fails |-> fails, ops |-> <<>>]

\* the lists of loggers a multiHandler is constructed over
LoggerLists ==
    UNION {{[k \in 1..n |-> NewChild(k, f[k].minLevel, f[k].fails)] :
                f \in [1..n -> [minLevel : ChildMinLevels, fails : BOOLEAN]]} :
           n \in 0..MaxChildren}

\* logger.Handler().Enabled(ctx, level) of a child
ChildEnabled(h, level) == level >= h.minLevel
\* logger.Handler().Handle(ctx, record) of a child: what it returns
ChildHandle(h, record) == IF h.fails THEN Leaf(h.name) ELSE Nil
\* logger.Handler().WithAttrs(attrs) / WithGroup(name) of a child
ChildWithAttrs(h, attrs) ==
    [h EXCEPT !.ops = Append(@, [op |-> "attrs", attrs |-> attrs, group |-> ""])]
ChildWithGroup(h, name) ==
    [h EXCEPT !.ops = Append(@, [op |-> "group", attrs |-> <<>>, group |-> name])]

\* a mutant of Enabled: the answer of the first child is returned
EnabledFirstOnly(ls, level) ==
    IF ls = <<>> THEN FALSE ELSE ChildEnabled(Head(ls), level)

RECURSIVE Enabled(_, _)
\* multiHandler.Enabled: true at the first child that is enabled
Enabled(ls, level) ==
    IF ls = <<>> THEN FALSE
    ELSE IF ChildEnabled(Head(ls), level) THEN TRUE
    ELSE Enabled(Tail(ls), level)

RECURSIVE HandleLoopStopOnError(_, _)
\* a mutant of HandleLoop: the loop returns at the first child that fails
HandleLoopStopOnError(ls, record) ==
    IF ls = <<>> THEN <<>>
    ELSE <<[child |-> Head(ls).name, record |-> record,
            err |-> ChildHandle(Head(ls), record)]>>
         \o (IF ChildHandle(Head(ls), record) # Nil THEN <<>>
             ELSE HandleLoopStopOnError(Tail(ls), record))

RECURSIVE HandleLoopSkipDisabled(_, _)
\* a mutant of HandleLoop: a child that is not enabled for the level is skipped
HandleLoopSkipDisabled(ls, record) ==
    IF ls = <<>> THEN <<>>
    ELSE (IF ChildEnabled(Head(ls), record.level)
          THEN <<[child |-> Head(ls).name, record |-> record,
                  err |-> ChildHandle(Head(ls), record)]>>
          ELSE <<>>)
         \o HandleLoopSkipDisabled(Tail(ls), record)

RECURSIVE HandleLoop(_, _)
\* the loop of multiHandler.Handle: the Handle calls made on the children
HandleLoop(ls, record) ==
    IF ls = <<>> THEN <<>>
    ELSE <<[child |-> Head(ls).name, record |-> record,
            err |-> ChildHandle(Head(ls), record)]>>
         \o HandleLoop(Tail(ls), record)

\* what multiHandler.Handle returns after the loop: return nil
HandleReturn(deliveries) == Nil

\* a mutant of WithAttrs: the new handler is built over the old loggers
WithAttrsShared(ls, attrs) == ls

RECURSIVE WithAttrs(_, _)
\* multiHandler.WithAttrs: the loggers of the handler it returns
WithAttrs(ls, attrs) ==
    IF ls = <<>> THEN <<>>
    ELSE <<ChildWithAttrs(Head(ls), attrs)>> \o WithAttrs(Tail(ls), attrs)

RECURSIVE WithGroup(_, _)
\* multiHandler.WithGroup: the loggers of the handler it returns
WithGroup(ls, name) ==
    IF ls = <<>> THEN <<>>
    ELSE <<ChildWithGroup(Head(ls), name)>> \o WithGroup(Tail(ls), name)

\* no call on the multiHandler has returned yet
NoRet == [op |-> "", level |-> 0, enabled |-> FALSE, record |-> [level |-> 0, msg |-> ""],
          err |-> Nil, attrs |-> <<>>, group |-> "", before |-> <<>>]

\* &multiHandler{loggers: loggers}
NewMultiHandler(ls) ==
    /\ mhState = "none"
    /\ mhState' = "built"
    /\ loggers' = ls
    /\ UNCHANGED <<derived, delivered, mhRet>>
    /\ UNCHANGED <<shutVars, logVars, appVars>>

\* m.Enabled(ctx, level)
EnabledCall(level) ==
    /\ mhState = "built"
    /\ mhRet' = [NoRet EXCEPT !.op = "Enabled", !.level = level,
                              !.enabled = Enabled(loggers, level),
                              !.before = loggers]
    /\ UNCHANGED <<mhState, loggers, derived, delivered>>
    /\ UNCHANGED <<shutVars, logVars, appVars>>

\* m.Handle(ctx, record)
HandleCall(record) ==
    /\ mhState = "built"
    /\ delivered' = HandleLoop(loggers, record)
    /\ mhRet' = [NoRet EXCEPT !.op = "Handle", !.record = record,
                              !.err = HandleReturn(HandleLoop(loggers, record)),
                              !.before = loggers]
    /\ UNCHANGED <<mhState, loggers, derived>>
    /\ UNCHANGED <<shutVars, logVars, appVars>>

\* m.WithAttrs(attrs)
WithAttrsCall(attrs) ==
    /\ mhState = "built"
    /\ derived' = WithAttrs(loggers, attrs)
    /\ mhRet' = [NoRet EXCEPT !.op = "WithAttrs", !.attrs = attrs, !.before = loggers]
    /\ UNCHANGED <<mhState, loggers, delivered>>
    /\ UNCHANGED <<shutVars, logVars, appVars>>

\* m.WithGroup(name)
WithGroupCall(name) ==
    /\ mhState = "built"
    /\ derived' = WithGroup(loggers, name)
    /\ mhRet' = [NoRet EXCEPT !.op = "WithGroup", !.group = name, !.before = loggers]
    /\ UNCHANGED <<mhState, loggers, delivered>>
    /\ UNCHANGED <<shutVars, logVars, appVars>>

----------------------------------------------------------------------------
(* main, src/go-app/main.go:25-134, with the two goroutines it starts: the    *)
(* server goroutine (main.go:107-119) and the Kafka worker                  *)
(* (config.go:74-102 over kafka.go:131-187).  The goroutines are not        *)
(* synchronised with main.  The requests the server handles follow the     *)
(* user code below.                                                         *)

\* the initialisation steps of main after Setup, each ending in log.Fatalf
\* when it fails (main.go:48-91)
MainInitSteps == <<"postgres", "redis", "producer", "consumer", "migrate">>

\* the steps after which main registers a deferred Close (main.go:53, 64, 75, 82)
MainClosers == {"postgres", "redis", "producer", "consumer"}

\* where main goes after an initialisation step that succeeded
MainAfter(step) ==
    IF Index(MainInitSteps, step) < Len(MainInitSteps)
    THEN MainInitSteps[Index(MainInitSteps, step) + 1]
    ELSE "serving"

\* the format string of the log.Fatalf call that ends a failed step
\* (main.go:36, 51, 62, 73, 80, 90)
MainFatalMsg(step) ==
    CASE step = "setup" -> "Failed to initialize telemetry"
      [] step = "postgres" -> "Failed to initialize postgres"
      [] step = "redis" -> "Failed to initialize redis"
      [] step = "producer" -> "Failed to initialize kafka producer"
      [] step = "consumer" -> "Failed to initialize kafka consumer"
      [] step = "migrate" -> "Failed to run auto migration"

\* the output of log.Fatalf: once slog.SetDefault has run (part_005:612-614)
\* the log package writes through the slog handler, as an INFO record that
\* does not pass the verbosity gate of telemetry.Log; before, to stderr
Fatalf(sk, msg) ==
    IF slogDefault = "go" THEN sk
    ELSE Append(sk, [level |-> "INFO", msg |-> msg, attrs |-> <<>>])

\* the lines of e.Error(): a joinError prints one line per joined error
ErrorLines(e) == [k \in 1..Len(Flatten(e)) |-> Flatten(e)[k].name]

\* telemetry.Log as main and its goroutines call it, on a ctx whose span is
\* not followed here: the record handed to the sink, if the gate lets it
\* through
MainLog(sk, level, msg, errLines, attrs) ==
    IF ~shouldLogMessage(level, GetLogVerbosity) THEN sk
    ELSE Append(sk, [level |-> SlogLevel(level), msg |-> msg,
                     attrs |-> IF level = LevelError /\ errLines # <<>>
                               THEN Append(attrsToLogAttrs(attrs),
                                           [key |-> "error", any |-> errLines])
                               ELSE attrsToLogAttrs(attrs)])
\* the attrsToLogAttrs calls of such a Log call
MainLogConv(level, attrs) ==
    ConvertAttrs(shouldLogMessage(level, GetLogVerbosity), attrs).calls

\* the record deferred Close of client d logs when it fails (main.go:55, 66)
MainCloseMsg(d) ==
    IF d = "postgres" THEN "Error during postgres shutdown"
    ELSE "Error during redis shutdown"

\* kconsumer.Close() has run (main.go:82)
ConsumerClosed ==
    /\ kafkaPc # "none"
    /\ \A k \in 1..Len(defers) : defers[k] # "consumer"

\* the attributes of the Log calls of the Kafka worker (config.go:81-85,
\* kafka.go:176-180)
KafkaRecordAttrs ==
    <<[Key |-> "kafka.topic", Type |-> "STRING", Value |-> "t"],
      [Key |-> "kafka.offset", Type |-> "INT64", Value |-> 0],
      [Key |-> "kafka.value", Type |-> "STRING", Value |-> "v"]>>
KafkaCountAttrs == <<[Key |-> "kafka.processed_count", Type |-> "INT64", Value |-> 1]>>

\* telemetry.Setup has returned (main.go:34-46): log.Fatalf on an error,
\* else the shutdown function is deferred
MainSetupReturns ==
    /\ mainPc = "setup"
    /\ setupState # "none"
    /\ IF setupState = "failed"
       THEN /\ mainPc' = "fatal"
            /\ sink' = Fatalf(sink, MainFatalMsg("setup"))
            /\ UNCHANGED defers
       ELSE /\ mainPc' = Head(MainInitSteps)
            /\ defers' = Append(defers, "telemetry")
            /\ UNCHANGED sink
    /\ UNCHANGED <<exitBy, signalled, srvPc, kafkaPc, server>>
    /\ UNCHANGED <<logVerbosity, logPc, cur, span, conv, logCalls, last>>
    /\ UNCHANGED <<shutVars, multiVars, mainOthers>>

\* one initialisation step of main (main.go:48-105): on an error log.Fatalf
\* writes its line, else a Close is deferred where there is one; after the
\* consumer is built the Kafka worker is started (main.go:85-86), and after
\* the last step the server goroutine (main.go:104-119)
MainInit(ok) ==
    /\ mainPc \in {MainInitSteps[k] : k \in 1..Len(MainInitSteps)}
    /\ IF ~ok
       THEN /\ mainPc' = "fatal"
            /\ sink' = Fatalf(sink, MainFatalMsg(mainPc))
            /\ UNCHANGED <<defers, srvPc, kafkaPc>>
       ELSE /\ mainPc' = MainAfter(mainPc)
            /\ defers' = (IF mainPc \in MainClosers THEN Append(defers, mainPc) ELSE defers)
                         \o (IF MainAfter(mainPc) = "serving" THEN <<"serverCancel">> ELSE <<>>)
            /\ srvPc' = IF MainAfter(mainPc) = "serving" THEN "started" ELSE srvPc
            /\ kafkaPc' = IF mainPc = "consumer" THEN "polling" ELSE kafkaPc
            /\ UNCHANGED sink
    /\ UNCHANGED <<exitBy, signalled, server>>
    /\ UNCHANGED <<logVerbosity, logPc, cur, span, conv, logCalls, last>>
    /\ UNCHANGED <<shutVars, multiVars, mainOthers>>

\* log.Fatalf ends the process with os.Exit(1): no deferred call runs
MainFatalExit ==
    /\ mainPc = "fatal"
    /\ mainPc' = "exited"
    /\ exitBy' = "log.Fatalf"
    /\ UNCHANGED <<defers, signalled, srvPc, kafkaPc, server>>
    /\ UNCHANGED <<shutVars, logVars, multiVars, mainOthers>>

\* the server goroutine logs that it starts (main.go:108-109)
ServerStarting ==
    /\ mainPc # "exited"
    /\ srvPc = "started"
    /\ sink' = MainLog(sink, LevelInfo, "Starting server on", <<>>, <<>>)
    /\ conv' = conv + MainLogConv(LevelInfo, <<>>)
    /\ srvPc' = "calling"
    /\ UNCHANGED <<mainPc, exitBy, defers, signalled, kafkaPc, server>>
    /\ UNCHANGED <<logVerbosity, logPc, cur, span, logCalls, last>>
    /\ UNCHANGED <<shutVars, multiVars, mainOthers>>

\* StartWithAddr stores the http.Server in h.server (handler.go:58-66)
StartWithAddr ==
    /\ mainPc # "exited"
    /\ srvPc = "calling"
    /\ server' = "set"
    /\ srvPc' = "listen"
    /\ UNCHANGED <<mainPc, exitBy, defers, signalled, kafkaPc>>
    /\ UNCHANGED <<shutVars, logVars, multiVars, mainOthers>>

\* h.server.ListenAndServe() (handler.go:68): ErrServerClosed at once when
\* Shutdown was called before, else it fails to listen or serves
ListenAndServe(listenErr) ==
    /\ mainPc # "exited"
    /\ srvPc = "listen"
    /\ srvPc' = IF server = "shutdown" THEN "done"
                ELSE IF listenErr = "" THEN "serving"
                ELSE listenErr
    /\ UNCHANGED <<mainPc, exitBy, defers, signalled, kafkaPc, server>>
    /\ UNCHANGED <<shutVars, logVars, multiVars, mainOthers>>

\* ListenAndServe returns ErrServerClosed after Shutdown: the goroutine
\* ends without a record (main.go:110)
ServerClosed ==
    /\ mainPc # "exited"
    /\ srvPc = "serving"
    /\ server = "shutdown"
    /\ srvPc' = "done"
    /\ UNCHANGED <<mainPc, exitBy, defers, signalled, kafkaPc, server>>
    /\ UNCHANGED <<shutVars, logVars, multiVars, mainOthers>>

\* StartWithAddr has returned another error: the goroutine logs it
\* (main.go:111-117)
ServerFails ==
    /\ mainPc # "exited"
    /\ srvPc \in {"EADDRINUSE", "listen error"}
    /\ sink' = MainLog(sink, LevelError,
                       IF srvPc = "EADDRINUSE" THEN "Port is already in use"
                       ELSE "Server failed to start",
                       <<srvPc>>, <<>>)
    /\ conv' = conv + MainLogConv(LevelError, <<>>)
    /\ srvPc' = IF srvPc = "EADDRINUSE" THEN "exiting" ELSE "done"
    /\ UNCHANGED <<mainPc, exitBy, defers, signalled, kafkaPc, server>>
    /\ UNCHANGED <<logVerbosity, logPc, cur, span, logCalls, last>>
    /\ UNCHANGED <<shutVars, multiVars, mainOthers>>

\* os.Exit(1) in the server goroutine (main.go:114), wherever main is
ServerExit ==
    /\ mainPc # "exited"
    /\ srvPc = "exiting"
    /\ mainPc' = "exited"
    /\ exitBy' = "os.Exit"
    /\ UNCHANGED <<defers, signalled, srvPc, kafkaPc, server>>
    /\ UNCHANGED <<shutVars, logVars, multiVars, mainOthers>>

\* the Kafka worker handles a fetched record: messageHandler logs it
\* (config.go:80-97, kafka.go:159-174)
KafkaHandle ==
    /\ mainPc # "exited"
    /\ kafkaPc = "polling"
    /\ ~ConsumerClosed
    /\ sink' = MainLog(sink, LevelInfo, "Processing Kafka message", <<>>, KafkaRecordAttrs)
    /\ conv' = conv + MainLogConv(LevelInfo, KafkaRecordAttrs)
    /\ kafkaPc' = "handled"
    /\ UNCHANGED <<mainPc, exitBy, defers, signalled, srvPc, server>>
    /\ UNCHANGED <<logVerbosity, logPc, cur, span, logCalls, last>>
    /\ UNCHANGED <<shutVars, multiVars, mainOthers>>

\* the Kafka worker logs the number of records it processed (kafka.go:176-180)
KafkaProcessed ==
    /\ mainPc # "exited"
    /\ kafkaPc = "handled"
    /\ sink' = MainLog(sink, LevelInfo, "Processed Kafka messages", <<>>, KafkaCountAttrs)
    /\ conv' = conv + MainLogConv(LevelInfo, KafkaCountAttrs)
    /\ kafkaPc' = "polling"
    /\ UNCHANGED <<mainPc, exitBy, defers, signalled, srvPc, server>>
    /\ UNCHANGED <<logVerbosity, logPc, cur, span, logCalls, last>>
    /\ UNCHANGED <<shutVars, multiVars, mainOthers>>

\* ConsumeWithTracing sees that ctx is done and returns ctx.Err()
\* (kafka.go:136-139)
KafkaCtxDone ==
    /\ mainPc # "exited"
    /\ kafkaPc = "polling"
    /\ signalled
    /\ sink' = MainLog(sink, LevelInfo, "Kafka consumer shutting down", <<>>, <<>>)
    /\ conv' = conv + MainLogConv(LevelInfo, <<>>)
    /\ kafkaPc' = "cancelled"
    /\ UNCHANGED <<mainPc, exitBy, defers, signalled, srvPc, server>>
    /\ UNCHANGED <<logVerbosity, logPc, cur, span, logCalls, last>>
    /\ UNCHANGED <<shutVars, multiVars, mainOthers>>

\* PollFetches reports that the client was closed: ConsumeWithTracing
\* returns nil (kafka.go:141-146)
KafkaClientClosed ==
    /\ mainPc # "exited"
    /\ kafkaPc = "polling"
    /\ ConsumerClosed
    /\ sink' = MainLog(sink, LevelInfo, "Kafka client closed, consumer stopping", <<>>, <<>>)
    /\ conv' = conv + MainLogConv(LevelInfo, <<>>)
    /\ kafkaPc' = "done"
    /\ UNCHANGED <<mainPc, exitBy, defers, signalled, srvPc, server>>
    /\ UNCHANGED <<logVerbosity, logPc, cur, span, logCalls, last>>
    /\ UNCHANGED <<shutVars, multiVars, mainOthers>>

\* startConsumer logs the error ConsumeWithTracing returned (config.go:99-101)
KafkaConsumerError ==
    /\ mainPc # "exited"
    /\ kafkaPc = "cancelled"
    /\ sink' = MainLog(sink, LevelError, "Kafka consumer error", <<"context canceled">>, <<>>)
    /\ conv' = conv + MainLogConv(LevelError, <<>>)
    /\ kafkaPc' = "done"
    /\ UNCHANGED <<mainPc, exitBy, defers, signalled, srvPc, server>>
    /\ UNCHANGED <<logVerbosity, logPc, cur, span, logCalls, last>>
    /\ UNCHANGED <<shutVars, multiVars, mainOthers>>

\* os.Interrupt or SIGTERM arrives: ctx is done
Interrupt ==
    /\ mainPc # "exited"
    /\ ~signalled
    /\ signalled' = TRUE
    /\ UNCHANGED <<mainPc, exitBy, defers, srvPc, kafkaPc, server>>
    /\ UNCHANGED <<shutVars, logVars, multiVars, mainOthers>>

\* main gets past <-ctx.Done() and logs (main.go:124-127)
MainInterrupted ==
    /\ mainPc = "serving"
    /\ signalled
    /\ sink' = MainLog(sink, LevelInfo, "Shutting down application gracefully", <<>>, <<>>)
    /\ conv' = conv + MainLogConv(LevelInfo, <<>>)
    /\ mainPc' = "stop"
    /\ UNCHANGED <<exitBy, defers, signalled, srvPc, kafkaPc, server>>
    /\ UNCHANGED <<logVerbosity, logPc, cur, span, logCalls, last>>
    /\ UNCHANGED <<shutVars, multiVars, mainOthers>>

\* main defers cancel and calls handler.Stop (main.go:129-131,
\* handler.go:72-77): Shutdown is called on the server h.server holds at
\* that moment, and Stop returns nil at once when it holds none
Stop ==
    /\ mainPc = "stop"
    /\ defers' = Append(defers, "cancel")
    /\ IF server = "set"
       THEN server' = "shutdown" /\ mainPc' = "stopping"
       ELSE UNCHANGED server /\ mainPc' = "returning"
    /\ UNCHANGED <<exitBy, signalled, srvPc, kafkaPc>>
    /\ UNCHANGED <<shutVars, logVars, multiVars, mainOthers>>

\* http.Server.Shutdown returns: nil once no request is being handled, or
\* the error of shutdownCtx, which main logs (main.go:131-133)
StopReturns(stopOk) ==
    /\ mainPc = "stopping"
    /\ stopOk => req.pc = "idle"
    /\ sink' = IF stopOk THEN sink
               ELSE MainLog(sink, LevelError, "Error during server shutdown",
                            <<"context deadline exceeded">>, <<>>)
    /\ conv' = conv + (IF stopOk THEN 0 ELSE MainLogConv(LevelError, <<>>))
    /\ mainPc' = "returning"
    /\ UNCHANGED <<exitBy, defers, signalled, srvPc, kafkaPc, server>>
    /\ UNCHANGED <<logVerbosity, logPc, cur, span, logCalls, last>>
    /\ UNCHANGED <<shutVars, multiVars, mainOthers>>

\* the deferred function of main.go:38-46 runs: shutdown(shutdownCtx) is called
MainDeferredShutdown ==
    /\ mainPc = "returning"
    /\ defers # <<>>
    /\ defers[Len(defers)] = "telemetry"
    /\ calls = 0
    /\ ShutdownCall

\* shutdown(shutdownCtx) has returned in the deferred function: a non-nil
\* error is logged (main.go:43-45)
MainShutdownReturns ==
    /\ mainPc = "returning"
    /\ defers # <<>>
    /\ defers[Len(defers)] = "telemetry"
    /\ pc = "idle"
    /\ returned >= 1
    /\ sink' = IF result = Nil THEN sink
               ELSE MainLog(sink, LevelError, "Error during telemetry shutdown",
                            ErrorLines(result), <<>>)
    /\ conv' = conv + (IF result = Nil THEN 0 ELSE MainLogConv(LevelError, <<>>))
    /\ defers' = SubSeq(defers, 1, Len(defers) - 1)
    /\ UNCHANGED <<mainPc, exitBy, signalled, srvPc, kafkaPc, server>>
    /\ UNCHANGED <<logVerbosity, logPc, cur, span, logCalls, last>>
    /\ UNCHANGED <<shutVars, multiVars, mainOthers>>

\* any other deferred call of main runs (cancel, serverCancel, stop, the
\* Close of a client); a Close of postgres or redis that fails is logged
\* (main.go:53-57, 64-68), one of a Kafka client is not (main.go:75, 82)
MainDeferredClose(closeOk) ==
    /\ mainPc = "returning"
    /\ defers # <<>>
    /\ defers[Len(defers)] # "telemetry"
    /\ LET d == defers[Len(defers)]
           logged == ~closeOk /\ d \in {"postgres", "redis"}
       IN /\ sink' = IF logged
                     THEN MainLog(sink, LevelError, MainCloseMsg(d), <<"close error">>, <<>>)
                     ELSE sink
          /\ conv' = conv + (IF logged THEN MainLogConv(LevelError, <<>>) ELSE 0)
    /\ defers' = SubSeq(defers, 1, Len(defers) - 1)
    /\ UNCHANGED <<mainPc, exitBy, signalled, srvPc, kafkaPc, server>>
    /\ UNCHANGED <<logVerbosity, logPc, cur, span, logCalls, last>>
    /\ UNCHANGED <<shutVars, multiVars, mainOthers>>

\* every deferred call has run: main returns and the process ends
MainExit ==
    /\ mainPc = "returning"
    /\ defers = <<>>
    /\ mainPc' = "exited"
    /\ exitBy' = "return"
    /\ UNCHANGED <<defers, signalled, srvPc, kafkaPc, server>>
    /\ UNCHANGED <<shutVars, logVars, multiVars, mainOthers>>

----------------------------------------------------------------------------
(* Concurrent Log and SetLogVerbosity calls, part_004:246-327.  Each        *)
(* goroutine runs one Log call on a ctx without a span; mu is the RWMutex   *)
(* that guards logVerbosity.                                                *)

Goroutines == 1..MaxGoroutines
\* the severities and levels the concurrent calls are made with
GoLevels == {LevelWarn, LevelInfo}
GoVerbosityArgs == 0..2
\* the attributes and the message of the concurrent Log calls
GoAttrs == <<[Key |-> "k", Type |-> "INT64", Value |-> 7]>>
GoMsg == "m"

\* sync.RWMutex with no holder
Unlocked == [writer |-> FALSE, readers |-> 0]

\* a goroutine that has not called Log yet
IdleLog == [pc |-> "idle", level |-> "", verbosity |-> 0, shouldLog |-> FALSE,
            converted |-> 0, emitted |-> 0]

\* Log(ctx, level, msg, nil, attrs...) is called (part_004:287-291)
GoLogCall(g, level) ==
    /\ gor[g].pc = "idle"
    /\ gor' = [gor EXCEPT ![g].pc = "called", ![g].level = level]
    /\ UNCHANGED <<gmu, setPc>>
    /\ UNCHANGED <<shutVars, logVars, multiVars, mainVars, userVars>>

\* GetLogVerbosity: mu.RLock() (part_004:261), which waits for a writer
GoRLock(g) ==
    /\ gor[g].pc = "called"
    /\ ~gmu.writer
    /\ gmu' = [gmu EXCEPT !.readers = @ + 1]
    /\ gor' = [gor EXCEPT ![g].pc = "rlocked"]
    /\ UNCHANGED setPc
    /\ UNCHANGED <<shutVars, logVars, multiVars, mainVars, userVars>>

\* GetLogVerbosity returns logVerbosity and unlocks (part_004:262-263);
\* shouldLogMessage turns it into the local shouldLog of Log (268-282, 291)
GoRead(g) ==
    /\ gor[g].pc = "rlocked"
    /\ gmu' = [gmu EXCEPT !.readers = @ - 1]
    /\ gor' = [gor EXCEPT ![g].pc = "gated",
                          ![g].verbosity = GetLogVerbosity,
                          ![g].shouldLog = shouldLogMessage(gor[g].level, GetLogVerbosity)]
    /\ UNCHANGED setPc
    /\ UNCHANGED <<shutVars, logVars, multiVars, mainVars, userVars>>

\* if shouldLog { logAttrs = attrsToLogAttrs(attrs) } (part_004:293-295)
GoConvert(g) ==
    /\ gor[g].pc = "gated"
    /\ conv' = conv + ConvertAttrs(gor[g].shouldLog, GoAttrs).calls
    /\ gor' = [gor EXCEPT ![g].pc = "converted",
                          ![g].converted = ConvertAttrs(gor[g].shouldLog, GoAttrs).calls]
    /\ UNCHANGED <<gmu, setPc>>
    /\ UNCHANGED <<logVerbosity, logPc, cur, span, sink, logCalls, last>>
    /\ UNCHANGED <<shutVars, multiVars, mainVars, userVars>>

\* a mutant of GoDecision: the level is read again when the record is emitted
GoDecisionReread(r) == shouldLogMessage(r.level, GetLogVerbosity)

\* the condition of `if shouldLog { slog...Context(...) }` (part_004:316, 323):
\* the local set at line 291
GoDecision(r) == r.shouldLog

\* the switch of Log (part_004:297-326) for a ctx without a recording span
GoEmit(g) ==
    LET c == [level |-> gor[g].level, msg |-> GoMsg, err |-> NoErr,
              attrs |-> GoAttrs, recording |-> FALSE,
              shouldLog |-> GoDecision(gor[g]), verbosity |-> gor[g].verbosity]
        logAttrs == ConvertAttrs(gor[g].shouldLog, GoAttrs).logAttrs
    IN
    /\ gor[g].pc = "converted"
    /\ sink' = SinkAfterLog(sink, c, logAttrs)
    /\ span' = SpanAfterLog(span, c)
    /\ gor' = [gor EXCEPT ![g].pc = "done",
                          ![g].emitted = Len(SinkAfterLog(sink, c, logAttrs)) - Len(sink)]
    /\ UNCHANGED <<gmu, setPc>>
    /\ UNCHANGED <<logVerbosity, logPc, cur, conv, logCalls, last>>
    /\ UNCHANGED <<shutVars, multiVars, mainVars, userVars>>

\* SetLogVerbosity(verbosity): mu.Lock() (part_004:254), which waits for the
\* readers and for a writer
SetLock(verbosity) ==
    /\ setPc.pc = "idle"
    /\ ~gmu.writer
    /\ gmu.readers = 0
    /\ gmu' = [gmu EXCEPT !.writer = TRUE]
    /\ setPc' = [pc |-> "locked", arg |-> verbosity]
    /\ UNCHANGED gor
    /\ UNCHANGED <<shutVars, logVars, multiVars, mainVars, userVars>>

\* logVerbosity = verbosity, then the deferred mu.Unlock() (part_004:255-256)
SetStore ==
    /\ setPc.pc = "locked"
    /\ logVerbosity' = setPc.arg
    /\ gmu' = [gmu EXCEPT !.writer = FALSE]
    /\ setPc' = [pc |-> "idle", arg |-> 0]
    /\ UNCHANGED gor
    /\ UNCHANGED <<logPc, cur, span, sink, conv, logCalls, last>>
    /\ UNCHANGED <<shutVars, multiVars, mainVars, userVars>>

----------------------------------------------------------------------------
(* Strings, as sequences of bytes, and the conversions the user code does   *)

\* unicode.IsSpace for the ASCII range
IsSpace(b) == b \in {9, 10, 11, 12, 13, 32}

RECURSIVE TrimLeft(_)
TrimLeft(s) == IF s # <<>> /\ IsSpace(Head(s)) THEN TrimLeft(Tail(s)) ELSE s
RECURSIVE TrimRight(_)
TrimRight(s) ==
    IF s # <<>> /\ IsSpace(s[Len(s)]) THEN TrimRight(SubSeq(s, 1, Len(s) - 1)) ELSE s
\* strings.TrimSpace
TrimSpace(s) == TrimRight(TrimLeft(s))

\* strings.ToLower for ASCII text
ToLower(s) == [k \in 1..Len(s) |-> IF s[k] \in 65..90 THEN s[k] + 32 ELSE s[k]]

IsDigit(b) == b \in 48..57
IsLetter(b) == b \in 65..90 \/ b \in 97..122
\* the character classes of emailRegex (user.go:27)
IsLocalChar(b) == IsLetter(b) \/ IsDigit(b) \/ b \in {46, 95, 37, 43, 45}
IsDomainChar(b) == IsLetter(b) \/ IsDigit(b) \/ b \in {46, 45}

\* emailRegex.MatchString: ^[a-zA-Z0-9._%+-]+@[a-zA-Z0-9.-]+\.[a-zA-Z]{2,}$
MatchEmail(s) ==
    \E a \in 1..Len(s), d \in 1..Len(s) :
        /\ s[a] = 64
        /\ a > 1
        /\ \A k \in 1..(a - 1) : IsLocalChar(s[k])
        /\ s[d] = 46
        /\ d > a + 1
        /\ \A k \in (a + 1)..(d - 1) : IsDomainChar(s[k])
        /\ Len(s) - d >= 2
        /\ \A k \in (d + 1)..Len(s) : IsLetter(s[k])

RECURSIVE DigitsValue(_)
\* the number a sequence of decimal digits stands for
DigitsValue(s) ==
    IF s = <<>> THEN 0
    ELSE DigitsValue(SubSeq(s, 1, Len(s) - 1)) * 10 + (s[Len(s)] - 48)

IsDigits(s) == s # <<>> /\ \A k \in 1..Len(s) : IsDigit(s[k])

\* strconv.Atoi: an optional sign followed by decimal digits
Atoi(s) ==
    IF s # <<>> /\ s[1] \in {43, 45}
    THEN IF IsDigits(Tail(s))
         THEN [ok |-> TRUE,
               n |-> IF s[1] = 45 THEN 0 - DigitsValue(Tail(s)) ELSE DigitsValue(Tail(s))]
         ELSE [ok |-> FALSE, n |-> 0]
    ELSE IF IsDigits(s) THEN [ok |-> TRUE, n |-> DigitsValue(s)]
    ELSE [ok |-> FALSE, n |-> 0]

RECURSIVE Itoa(_)
\* UserID.String (user.go:20-22): fmt.Sprintf("%d", id), for id >= 0
Itoa(n) == IF n < 10 THEN <<48 + n>> ELSE Itoa(n \div 10) \o <<48 + (n % 10)>>

----------------------------------------------------------------------------
(* Domain errors, src/go-app/internal/domain/errors/errors.go *)

\* the predefined errors the user code calls WithContext on (errors.go:92-98)
PredefinedErrors == {"ErrUserNotFound", "ErrUserAlreadyExists", "ErrInvalidID"}
ErrorCodeOf(e) ==
    CASE e = "ErrUserNotFound" -> "USER_NOT_FOUND"
      [] e = "ErrUserAlreadyExists" -> "USER_ALREADY_EXISTS"
      [] e = "ErrInvalidID" -> "INVALID_ID"

\* an error value as a caller sees it: its code, the predefined error it is
\* (the same pointer) or "" for a fresh one, and the code of its cause
NoErrorValue == [code |-> "", predefined |-> "", cause |-> ""]
NewDomainError(code) == [code |-> code, predefined |-> "", cause |-> ""]
NewDomainErrorWithCause(code, cause) ==
    [code |-> code, predefined |-> "", cause |-> cause]
PredefinedError(e) == [code |-> ErrorCodeOf(e), predefined |-> e, cause |-> ""]

\* DomainError.WithContext (errors.go:63-69): e.Context[key] = value; return e
WithContext(ctxs, e, key, value) ==
    [ctxs EXCEPT ![e] = (key :> value) @@ @]

\* errors.Is(err, target) for domain errors (errors.go:54-60): equal codes
IsDomainError(er, e) == er.code = ErrorCodeOf(e)

----------------------------------------------------------------------------
(* entity.User, src/go-app/internal/domain/entity/user.go *)

\* the longest name NewName accepts
MaxNameLen == 100

\* NewEmail (user.go:30-39)
NewEmail(email) ==
    LET e == TrimSpace(ToLower(email)) IN
    IF e = <<>> THEN [ok |-> FALSE, email |-> <<>>, err |-> NewDomainError("INVALID_EMAIL")]
    ELSE IF ~MatchEmail(e)
    THEN [ok |-> FALSE, email |-> <<>>,
          err |-> [code |-> "INVALID_EMAIL", predefined |-> "ErrInvalidEmail", cause |-> ""]]
    ELSE [ok |-> TRUE, email |-> e, err |-> NoErrorValue]

\* NewName (user.go:55-67)
NewName(name) ==
    LET n == TrimSpace(name) IN
    IF n = <<>> \/ Len(n) < 2 \/ Len(n) > MaxNameLen
    THEN [ok |-> FALSE, name |-> <<>>, err |-> NewDomainError("INVALID_NAME")]
    ELSE [ok |-> TRUE, name |-> n, err |-> NoErrorValue]

NoUser == [id |-> 0, name |-> <<>>, email |-> <<>>]

\* NewUser (user.go:82-97)
NewUser(name, email) ==
    IF ~NewName(name).ok
    THEN [ok |-> FALSE, user |-> NoUser,
          err |-> NewDomainErrorWithCause("INVALID_USER_DATA", "INVALID_NAME")]
    ELSE IF ~NewEmail(email).ok
    THEN [ok |-> FALSE, user |-> NoUser,
          err |-> NewDomainErrorWithCause("INVALID_USER_DATA", "INVALID_EMAIL")]
    ELSE [ok |-> TRUE,
          user |-> [id |-> 0, name |-> NewName(name).name, email |-> NewEmail(email).email],
          err |-> NoErrorValue]

\* validateUserPayload (part_012:33-41)
validateUserPayload(name, email) ==
    IF TrimSpace(name) = <<>> THEN "name is required"
    ELSE IF TrimSpace(email) = <<>> THEN "email is required"
    ELSE ""

----------------------------------------------------------------------------
(* The in-memory UserRepository (part_002) under the UserService (part_014), *)
(* called from several goroutines.  A repository method is one step where   *)
(* it runs under r.mu from its first to its last access; the steps of a     *)
(* service call between two repository methods, which hold no lock, and the *)
(* assignment to a Context map in WithContext are steps of their own.  The  *)
(* fields of one stored object are read and written in one piece.           *)

\* the goroutines that call the service
Callers == 1..MaxCallers

\* a goroutine that runs no service call: the request, the locals of the
\* call, the lock it holds ("" | "r" | "w"), the repository method whose
\* error is being built, the pending WithContext(key, value) on the error
\* target, and what the call handed back: the error, the status passed to
\* recordMetric and the telemetry.Log calls made
IdleCall == [pc |-> "idle", op |-> "", idStr |-> <<>>, name |-> <<>>, email |-> <<>>,
             limit |-> 0, offset |-> 0, id |-> 0, user |-> NoUser, ref |-> 0,
             count |-> 0, locked |-> "", at |-> "", seen |-> {},
             target |-> "", key |-> "", value |-> <<>>,
             err |-> NoErrorValue, status |-> "", logs |-> <<>>]

\* telemetry.Log(ctx, level, msg, ...) is called by the call c
Logged(c, level, msg) ==
    [c EXCEPT !.logs = Append(@, [level |-> level, msg |-> msg])]

\* the call c is about to run errors.<e>.WithContext(key, value)
Contexted(c, e, key, value) ==
    [c EXCEPT !.pc = "write", !.target = e, !.key = key, !.value = value]

\* the call c returns er after recordMetric(ctx, op, status)
Returned(c, er, status) ==
    [c EXCEPT !.pc = "done", !.err = er, !.status = status,
              !.locked = "", !.at = ""]

\* the id a service call parses from idStr is not a valid user id
InvalidID(idStr) == ~Atoi(idStr).ok \/ Atoi(idStr).n <= 0

\* the ids whose stored user has the e-mail address
IdsWithEmail(email) ==
    {id \in DOMAIN users : heap[users[id]].email = email}

\* the length of the page UserRepository.List returns (part_002:148-171)
PageLen(n, limit, offset) ==
    LET start == IF offset < 0 THEN 0 ELSE offset
        end == IF limit <= 0 \/ start + limit > n THEN n ELSE start + limit
    IN IF start >= n THEN 0 ELSE end - start

\* ListUsersRequest.Validate (part_012:50-61); the limit it may have set
\* stays in the request
ValidateList(limit, offset) ==
    LET l == IF limit <= 0 THEN 10 ELSE limit IN
    IF l > 100 THEN [err |-> "limit cannot exceed 100", limit |-> l]
    ELSE IF offset < 0 THEN [err |-> "offset cannot be negative", limit |-> l]
    ELSE [err |-> "", limit |-> l]

\* the requests: names "Al", "B" and " ", e-mail addresses "a@b.io",
\* "A@b.io", "c@b.io" and "ab", ids "0".."MaxUsers" and "x"
ReqNames == {<<65, 108>>, <<66>>, <<32>>}
ReqEmails == {<<97, 64, 98, 46, 105, 111>>, <<65, 64, 98, 46, 105, 111>>,
              <<99, 64, 98, 46, 105, 111>>, <<97, 98>>}
UserPayloads ==
    {p \in [name : ReqNames, email : ReqEmails] :
        p.name = <<65, 108>> \/ p.email = <<97, 64, 98, 46, 105, 111>>}
IdStrs == {Itoa(n) : n \in 0..MaxUsers} \cup {<<120>>}
\* an UpdateUser request with an id that is rejected carries one payload
UpdateRequests ==
    {r \in [idStr : IdStrs, payload : UserPayloads] :
        InvalidID(r.idStr) =>
            r.payload = [name |-> <<65, 108>>, email |-> <<97, 64, 98, 46, 105, 111>>]}
ListRequests == {[limit |-> 0, offset |-> 0], [limit |-> 1, offset |-> 1],
                 [limit |-> 101, offset |-> 0], [limit |-> 1, offset |-> -1]}

\* goroutine g can start a service call
CanCall(g) ==
    /\ ~crashed
    /\ callers[g].pc \in {"idle", "done"}
    /\ userCalls < MaxUserCalls

\* goroutine g goes on as c; the repository and the errors stay as they are
Goes(g, c) ==
    /\ callers' = [callers EXCEPT ![g] = c]
    /\ UNCHANGED <<heap, users, nextID, errCtx, rmu, crashed, userCalls>>
    /\ UNCHANGED <<shutVars, logVars, multiVars, mainVars, gateVars>>

\* goroutine g starts a service call as c
Starts(g, c) ==
    /\ callers' = [callers EXCEPT ![g] = c]
    /\ userCalls' = userCalls + 1
    /\ UNCHANGED <<heap, users, nextID, errCtx, rmu, crashed>>
    /\ UNCHANGED <<shutVars, logVars, multiVars, mainVars, gateVars>>

\* UserService.CreateUser up to the call of ExistsByEmail (part_014:37-73)
CreateUser(g, name, email) ==
    LET c == Logged([IdleCall EXCEPT !.op = "CreateUser", !.name = name, !.email = email],
                    LevelInfo, "Creating user")
        u == NewUser(name, email)
    IN
    /\ CanCall(g)
    /\ Starts(g,
          IF validateUserPayload(name, email) # ""
          THEN Returned(c, NewDomainErrorWithCause("VALIDATION_FAILED",
                                                   validateUserPayload(name, email)),
                        "validation_error")
          ELSE IF ~u.ok
          THEN Returned(c, NewDomainErrorWithCause("INVALID_USER_DATA", u.err.code),
                        "validation_error")
          ELSE [c EXCEPT !.pc = "ExistsByEmail", !.user = u.user])

\* UserService.GetUserByID up to the call of GetByID (part_014:108-136)
GetUserByID(g, idStr) ==
    LET c == Logged([IdleCall EXCEPT !.op = "GetUserByID", !.idStr = idStr],
                    LevelInfo, "Fetching user by ID")
    IN
    /\ CanCall(g)
    /\ Starts(g,
          IF InvalidID(idStr)
          THEN Contexted([c EXCEPT !.status = "validation_error"],
                         "ErrInvalidID", "id", idStr)
          ELSE [c EXCEPT !.pc = "GetByID", !.id = Atoi(idStr).n])

\* UserService.GetUserByEmail up to the call of GetByEmail (part_014:161-187)
GetUserByEmail(g, email) ==
    LET c == Logged([IdleCall EXCEPT !.op = "GetUserByEmail", !.email = email],
                    LevelInfo, "Fetching user by email")
        e == NewEmail(email)
    IN
    /\ CanCall(g)
    /\ Starts(g,
          IF ~e.ok
          THEN Returned(c, NewDomainErrorWithCause("INVALID_EMAIL", e.err.code),
                        "validation_error")
          ELSE [c EXCEPT !.pc = "GetByEmail", !.user = [NoUser EXCEPT !.email = e.email]])

\* UserService.ListUsers up to the call of List (part_014:212-247)
ListUsers(g, limit, offset) ==
    LET c == Logged([IdleCall EXCEPT !.op = "ListUsers", !.limit = limit, !.offset = offset],
                    LevelInfo, "Fetching all users")
        v == ValidateList(limit, offset)
    IN
    /\ CanCall(g)
    /\ Starts(g,
          IF v.err # ""
          THEN Returned([c EXCEPT !.limit = v.limit],
                        NewDomainErrorWithCause("VALIDATION_FAILED", v.err),
                        "validation_error")
          ELSE [c EXCEPT !.pc = "List", !.limit = v.limit])

\* UserService.UpdateUser up to the call of GetByID (part_014:276-313)
UpdateUser(g, idStr, name, email) ==
    LET c == Logged([IdleCall EXCEPT !.op = "UpdateUser", !.idStr = idStr,
                                     !.name = name, !.email = email],
                    LevelInfo, "Updating user")
    IN
    /\ CanCall(g)
    /\ Starts(g,
          IF InvalidID(idStr)
          THEN Contexted([c EXCEPT !.status = "validation_error"],
                         "ErrInvalidID", "id", idStr)
          ELSE IF validateUserPayload(name, email) # ""
          THEN Returned(c, NewDomainErrorWithCause("VALIDATION_FAILED",
                                                   validateUserPayload(name, email)),
                        "validation_error")
          ELSE [c EXCEPT !.pc = "GetByID", !.id = Atoi(idStr).n])

\* UserService.DeleteUser up to the call of Delete (part_014:363-391)
DeleteUser(g, idStr) ==
    LET c == Logged([IdleCall EXCEPT !.op = "DeleteUser", !.idStr = idStr],
                    LevelInfo, "Deleting user")
    IN
    /\ CanCall(g)
    /\ Starts(g,
          IF InvalidID(idStr)
          THEN Contexted([c EXCEPT !.status = "validation_error"],
                         "ErrInvalidID", "id", idStr)
          ELSE [c EXCEPT !.pc = "Delete", !.id = Atoi(idStr).n])

\* UserRepository.ExistsByEmail under RLock (part_002:266-285), and what
\* CreateUser does with the answer (part_014:73-86): on true it goes on to
\* errors.ErrUserAlreadyExists.WithContext, holding no lock
ExistsByEmail(g) ==
    LET c == callers[g] IN
    /\ ~crashed
    /\ c.pc = "ExistsByEmail"
    /\ ~rmu.writer
    /\ Goes(g, IF IdsWithEmail(c.user.email) # {}
               THEN Contexted([c EXCEPT !.status = "conflict"],
                              "ErrUserAlreadyExists", "email", c.user.email)
               ELSE [c EXCEPT !.pc = "Create"])

\* UserRepository.Create under Lock (part_002:39-74): the object of the
\* caller is stored itself; then CreateUser returns (part_014:95-104).  When
\* the address is taken it goes on to WithContext, holding the lock
Create(g) ==
    LET c == callers[g] IN
    /\ ~crashed
    /\ c.pc = "Create"
    /\ ~rmu.writer
    /\ rmu.readers = 0
    /\ IF IdsWithEmail(c.user.email) # {}
       THEN /\ rmu' = [rmu EXCEPT !.writer = TRUE]
            /\ callers' = [callers EXCEPT ![g] =
                  Contexted([c EXCEPT !.locked = "w", !.at = "Create"],
                            "ErrUserAlreadyExists", "email", c.user.email)]
            /\ UNCHANGED <<heap, users, nextID>>
       ELSE /\ heap' = Append(heap, [c.user EXCEPT !.id = nextID])
            /\ users' = (nextID :> (Len(heap) + 1)) @@ users
            /\ nextID' = nextID + 1
            /\ callers' = [callers EXCEPT ![g] =
                  Returned(Logged(Logged([c EXCEPT !.ref = Len(heap) + 1, !.id = nextID],
                                         LevelInfo, "User created in memory"),
                                  LevelInfo, "User created successfully"),
                           NoErrorValue, "success")]
            /\ UNCHANGED rmu
    /\ UNCHANGED <<errCtx, crashed, userCalls>>
    /\ UNCHANGED <<shutVars, logVars, multiVars, mainVars, gateVars>>

\* UserRepository.GetByID under RLock (part_002:77-102): the stored pointer
\* is returned, to GetUserByID, which returns (part_014:148-157), or to
\* UpdateUser, which goes on (part_014:313-326).  On a miss it goes on to
\* WithContext, holding the read lock
GetByID(g) ==
    LET c == callers[g] IN
    /\ ~crashed
    /\ c.pc = "GetByID"
    /\ ~rmu.writer
    /\ IF c.id \notin DOMAIN users
       THEN /\ rmu' = [rmu EXCEPT !.readers = @ + 1]
            /\ callers' = [callers EXCEPT ![g] =
                  Contexted([c EXCEPT !.locked = "r", !.at = "GetByID"],
                            "ErrUserNotFound", "id", Itoa(c.id))]
       ELSE /\ callers' = [callers EXCEPT ![g] =
                  IF c.op = "UpdateUser"
                  THEN [c EXCEPT !.pc = "UpdateName", !.ref = users[c.id]]
                  ELSE Returned(Logged([c EXCEPT !.ref = users[c.id]],
                                       LevelInfo, "User fetched successfully"),
                                NoErrorValue, "success")]
            /\ UNCHANGED rmu
    /\ UNCHANGED <<heap, users, nextID, errCtx, crashed, userCalls>>
    /\ UNCHANGED <<shutVars, logVars, multiVars, mainVars, gateVars>>

\* UserRepository.GetByEmail under RLock (part_002:105-132): the first
\* stored user the map iteration meets with the address is returned, and
\* GetUserByEmail returns (part_014:199-208).  On a miss it goes on to
\* WithContext, holding the read lock
GetByEmail(g, id) ==
    LET c == callers[g] IN
    /\ ~crashed
    /\ c.pc = "GetByEmail"
    /\ ~rmu.writer
    /\ IF IdsWithEmail(c.user.email) = {}
       THEN /\ id = 0
            /\ rmu' = [rmu EXCEPT !.readers = @ + 1]
            /\ callers' = [callers EXCEPT ![g] =
                  Contexted([c EXCEPT !.locked = "r", !.at = "GetByEmail"],
                            "ErrUserNotFound", "email", c.user.email)]
       ELSE /\ id \in IdsWithEmail(c.user.email)
            /\ callers' = [callers EXCEPT ![g] =
                  Returned(Logged([c EXCEPT !.ref = users[id], !.id = id],
                                  LevelInfo, "User fetched successfully"),
                           NoErrorValue, "success")]
            /\ UNCHANGED rmu
    /\ UNCHANGED <<heap, users, nextID, errCtx, crashed, userCalls>>
    /\ UNCHANGED <<shutVars, logVars, multiVars, mainVars, gateVars>>

\* UserRepository.List under RLock (part_002:135-172); ListUsers goes on to
\* Count (part_014:247-255)
List(g) ==
    LET c == callers[g] IN
    /\ ~crashed
    /\ c.pc = "List"
    /\ ~rmu.writer
    /\ Goes(g, [c EXCEPT !.pc = "Count",
                         !.count = PageLen(Cardinality(DOMAIN users), c.limit, c.offset)])

\* UserRepository.Count under RLock (part_002:288-303); ListUsers returns
\* (part_014:262-272)
Count(g) ==
    LET c == callers[g] IN
    /\ ~crashed
    /\ c.pc = "Count"
    /\ ~rmu.writer
    /\ Goes(g, Returned(Logged(c, LevelInfo, "Users fetched successfully"),
                        NoErrorValue, "success"))

\* existingUser.UpdateName(req.Name) (part_014:326-330, user.go:120-127):
\* the stored object is written, with no lock held
UpdateName(g) ==
    LET c == callers[g] IN
    /\ ~crashed
    /\ c.pc = "UpdateName"
    /\ IF ~NewName(c.name).ok
       THEN /\ callers' = [callers EXCEPT ![g] =
                  Returned(c, NewDomainErrorWithCause("INVALID_NAME", "INVALID_USER_DATA"),
                           "validation_error")]
            /\ UNCHANGED heap
       ELSE /\ heap' = [heap EXCEPT ![c.ref].name = NewName(c.name).name]
            /\ callers' = [callers EXCEPT ![g].pc = "UpdateEmail"]
    /\ UNCHANGED <<users, nextID, errCtx, rmu, crashed, userCalls>>
    /\ UNCHANGED <<shutVars, logVars, multiVars, mainVars, gateVars>>

\* existingUser.UpdateEmail(req.Email) (part_014:332-336, user.go:130-137):
\* the stored object is written, with no lock held
UpdateEmail(g) ==
    LET c == callers[g] IN
    /\ ~crashed
    /\ c.pc = "UpdateEmail"
    /\ IF ~NewEmail(c.email).ok
       THEN /\ callers' = [callers EXCEPT ![g] =
                  Returned(c, NewDomainErrorWithCause("INVALID_EMAIL", "INVALID_USER_DATA"),
                           "validation_error")]
            /\ UNCHANGED heap
       ELSE /\ heap' = [heap EXCEPT ![c.ref].email = NewEmail(c.email).email]
            /\ callers' = [callers EXCEPT ![g].pc = "Update"]
    /\ UNCHANGED <<users, nextID, errCtx, rmu, crashed, userCalls>>
    /\ UNCHANGED <<shutVars, logVars, multiVars, mainVars, gateVars>>

\* UserRepository.Update (part_002:175-198) for the object UpdateUser
\* holds: r.mu is locked and the id is looked up.  When the user is gone it
\* goes on to WithContext, else to the loop over r.users; the lock is held
Update(g) ==
    LET c == callers[g]
        user == heap[c.ref]
    IN
    /\ ~crashed
    /\ c.pc = "Update"
    /\ ~rmu.writer
    /\ rmu.readers = 0
    /\ rmu' = [rmu EXCEPT !.writer = TRUE]
    /\ callers' = [callers EXCEPT ![g] =
          IF user.id \notin DOMAIN users
          THEN Contexted([c EXCEPT !.locked = "w", !.at = "Update"],
                         "ErrUserNotFound", "id", Itoa(user.id))
          ELSE [c EXCEPT !.pc = "UpdateScan", !.locked = "w", !.at = "Update",
                         !.seen = {}]]
    /\ UNCHANGED <<heap, users, nextID, errCtx, crashed, userCalls>>
    /\ UNCHANGED <<shutVars, logVars, multiVars, mainVars, gateVars>>

\* one iteration of the loop over r.users in Update (part_002:201-202), in
\* the order the map yields its entries: u.Email() and user.Email() are
\* read now, and another UpdateUser call may have written either since the
\* iteration before, holding no lock
UpdateScan(g, id) ==
    LET c == callers[g]
        user == heap[c.ref]
    IN
    /\ ~crashed
    /\ c.pc = "UpdateScan"
    /\ id \in DOMAIN users \ c.seen
    /\ Goes(g, IF id # user.id /\ heap[users[id]].email = user.email
               THEN [c EXCEPT !.pc = "UpdateConflict"]
               ELSE [c EXCEPT !.seen = @ \cup {id}])

\* the loop of Update has met the address at another user (part_002:203):
\* user.Email() is read again for the context of ErrUserAlreadyExists
UpdateConflict(g) ==
    LET c == callers[g] IN
    /\ ~crashed
    /\ c.pc = "UpdateConflict"
    /\ Goes(g, Contexted(c, "ErrUserAlreadyExists", "email", heap[c.ref].email))

\* the loop of Update has ended: the object is stored and r.mu released
\* (part_002:215-224); then UpdateUser returns (part_014:350-359)
UpdateStore(g) ==
    LET c == callers[g]
        user == heap[c.ref]
    IN
    /\ ~crashed
    /\ c.pc = "UpdateScan"
    /\ c.seen = DOMAIN users
    /\ users' = [users EXCEPT ![user.id] = c.ref]
    /\ rmu' = [rmu EXCEPT !.writer = FALSE]
    /\ callers' = [callers EXCEPT ![g] =
          Returned(Logged(Logged(c, LevelInfo, "User updated in memory"),
                          LevelInfo, "User updated successfully"),
                   NoErrorValue, "success")]
    /\ UNCHANGED <<heap, nextID, errCtx, crashed, userCalls>>
    /\ UNCHANGED <<shutVars, logVars, multiVars, mainVars, gateVars>>

\* UserRepository.Delete under Lock (part_002:228-263); then DeleteUser
\* returns (part_014:402-411).  On a miss it goes on to WithContext, holding
\* the lock
Delete(g) ==
    LET c == callers[g] IN
    /\ ~crashed
    /\ c.pc = "Delete"
    /\ ~rmu.writer
    /\ rmu.readers = 0
    /\ IF c.id \notin DOMAIN users
       THEN /\ rmu' = [rmu EXCEPT !.writer = TRUE]
            /\ callers' = [callers EXCEPT ![g] =
                  Contexted([c EXCEPT !.locked = "w", !.at = "Delete"],
                            "ErrUserNotFound", "id", Itoa(c.id))]
            /\ UNCHANGED users
       ELSE /\ users' = [k \in DOMAIN users \ {c.id} |-> users[k]]
            /\ callers' = [callers EXCEPT ![g] =
                  Returned(Logged(Logged(c, LevelInfo, "User deleted from memory"),
                                  LevelInfo, "User deleted successfully"),
                           NoErrorValue, "success")]
            /\ UNCHANGED rmu
    /\ UNCHANGED <<heap, nextID, errCtx, crashed, userCalls>>
    /\ UNCHANGED <<shutVars, logVars, multiVars, mainVars, gateVars>>

\* the other goroutines that are assigning to the Context map of error e
OtherWriters(g, e) ==
    {h \in Callers \ {g} : callers[h].pc = "writing" /\ callers[h].target = e}

\* what an assignment to a map can do while another goroutine assigns to
\* the same map: take effect, be lost, or end the process with
\* "fatal error: concurrent map writes"
RaceOutcomes == {"stored", "lost", "fatal"}

\* WithContext: the assignment e.Context[key] = value begins (errors.go:67)
WithContextBegin(g) ==
    /\ ~crashed
    /\ callers[g].pc = "write"
    /\ Goes(g, [callers[g] EXCEPT !.pc = "writing"])

\* WithContext: the assignment ends and e is returned (errors.go:67-68)
WithContextEnd(g, outcome) ==
    LET c == callers[g] IN
    /\ ~crashed
    /\ c.pc = "writing"
    /\ outcome \in (IF OtherWriters(g, c.target) = {} THEN {"stored"} ELSE RaceOutcomes)
    /\ errCtx' = IF outcome = "stored"
                 THEN WithContext(errCtx, c.target, c.key, c.value)
                 ELSE errCtx
    /\ crashed' = (outcome = "fatal")
    /\ callers' = [callers EXCEPT ![g].pc = "wrote"]
    /\ UNCHANGED <<heap, users, nextID, rmu, userCalls>>
    /\ UNCHANGED <<shutVars, logVars, multiVars, mainVars, gateVars>>

\* the record a repository method logs with the error it returns
\* (part_002:54, 92, 125, 191, 204, 244)
RepositoryErrorMsg(at, target) ==
    IF target = "ErrUserNotFound" THEN "User not found"
    ELSE IF at = "Update" THEN "User with this email already exists"
    ELSE "User already exists"

\* what the service call does with the error er of repository method at
\* (part_014:86-93, 137-146, 188-197, 314-323, 339-348, 391-400)
ServiceError(c, er) ==
    CASE c.at = "Create" ->
            Returned(Logged(c, LevelError, "Failed to create user"),
                     NewDomainErrorWithCause("REPOSITORY_ERROR", er.code), "error")
      [] c.at = "Update" ->
            IF IsDomainError(er, "ErrUserAlreadyExists")
            THEN Returned(c, er, "conflict")
            ELSE Returned(c, NewDomainErrorWithCause("REPOSITORY_ERROR", er.code), "error")
      [] OTHER ->
            IF IsDomainError(er, "ErrUserNotFound")
            THEN Returned(c, er, "not_found")
            ELSE Returned(c, NewDomainErrorWithCause("REPOSITORY_ERROR", er.code), "error")

\* the error WithContext returned is handed back: a repository method logs
\* it and releases r.mu, and the service call returns what it makes of it;
\* a service call that called WithContext itself returns the error
\* (part_014:82, 130, 300, 385)
ErrorReturn(g) ==
    LET c == callers[g]
        er == PredefinedError(c.target)
    IN
    /\ ~crashed
    /\ c.pc = "wrote"
    /\ rmu' = CASE c.locked = "r" -> [rmu EXCEPT !.readers = @ - 1]
                [] c.locked = "w" -> [rmu EXCEPT !.writer = FALSE]
                [] OTHER -> rmu
    /\ callers' = [callers EXCEPT ![g] =
          IF c.at = "" THEN Returned(c, er, c.status)
          ELSE ServiceError(Logged(c, LevelError, RepositoryErrorMsg(c.at, c.target)), er)]
    /\ UNCHANGED <<heap, users, nextID, errCtx, crashed, userCalls>>
    /\ UNCHANGED <<shutVars, logVars, multiVars, mainVars, gateVars>>

----------------------------------------------------------------------------
(* Requests the running server handles (handler.go:36-55, health.go:112-142, *)
(* routes.go:26-37, 66-106, 500-791).  main wires the UserService of       *)
(* part_014 over the Postgres repository (main.go:94-100), so what the     *)
(* database answers a service call is an input here.  A request runs in a  *)
(* goroutine of its own; each slog call, telemetry.Log call and WithContext *)
(* call it makes is one step.  The tracing and metrics middleware of       *)
(* handler.go:47-48 are not in the sources and write no record.            *)

AttrString(k, v) == [Key |-> k, Type |-> "STRING", Value |-> v]
AttrInt(k, v) == [Key |-> k, Type |-> "INT64", Value |-> v]

\* the paths of the routes, as bytes: "/health", "/" and "/users"
HealthPath == <<47, 104, 101, 97, 108, 116, 104>>
RootPath == <<47>>
UsersPath == <<47, 117, 115, 101, 114, 115>>

\* the limit listUsers passes when the query has none (routes.go:534)
DefaultLimit == 10

\* a request: the method, the pattern of the mux its path matches
\* (routes.go:33-37), the id in the path, the limit in the query (0 for
\* none), whether the body is JSON and the name and e-mail address in it,
\* what the database answers the repository of the service call ("ok",
\* "not found", "exists" to ExistsByEmail, "create error" to Create), and
\* whether json.Encode can write the response
Request(method, route, id, limit, json, name, email, repo, encode) ==
    [method |-> method, route |-> route, id |-> id, limit |-> limit, json |-> json,
     name |-> name, email |-> email, repo |-> repo, encode |-> encode]

\* no request is being handled: the request, the steps of its handler, the
\* status of the response, the step that is next and the requests received
NoRequest == [pc |-> "idle", request |-> Request("", "", <<>>, 0, FALSE, <<>>, <<>>, "", TRUE),
              steps |-> <<>>, status |-> 0, k |-> 0, n |-> 0]

\* the requests: ids "1", "0" and "x", limits none and 101, the payloads
\* {Al, a@b.io} and {" ", a@b.io}
Requests ==
    LET none == <<>>
        al == <<65, 108>>
        blank == <<32>>
        mail == <<97, 64, 98, 46, 105, 111>>
    IN
    {Request("GET", "/health", none, 0, FALSE, none, none, "", TRUE),
     Request("GET", "/health", none, 0, FALSE, none, none, "", FALSE),
     Request("POST", "/health", none, 0, FALSE, none, none, "", TRUE),
     Request("GET", "/", none, 0, FALSE, none, none, "", TRUE),
     Request("GET", "/users", none, 0, FALSE, none, none, "ok", TRUE),
     Request("GET", "/users", none, 101, FALSE, none, none, "ok", TRUE),
     Request("GET", "/users/{id}", <<49>>, 0, FALSE, none, none, "ok", TRUE),
     Request("GET", "/users/{id}", <<49>>, 0, FALSE, none, none, "not found", TRUE),
     Request("GET", "/users/{id}", <<48>>, 0, FALSE, none, none, "ok", TRUE),
     Request("POST", "/users", none, 0, FALSE, none, none, "ok", TRUE),
     Request("POST", "/users", none, 0, TRUE, al, mail, "ok", TRUE),
     Request("POST", "/users", none, 0, TRUE, blank, mail, "ok", TRUE),
     Request("POST", "/users", none, 0, TRUE, al, mail, "exists", TRUE),
     Request("POST", "/users", none, 0, TRUE, al, mail, "create error", TRUE),
     Request("PUT", "/users/{id}", <<49>>, 0, TRUE, al, mail, "ok", FALSE),
     Request("PUT", "/users/{id}", <<49>>, 0, TRUE, al, mail, "not found", TRUE),
     Request("DELETE", "/users/{id}", <<49>>, 0, FALSE, none, none, "ok", TRUE),
     Request("DELETE", "/users/{id}", <<120>>, 0, FALSE, none, none, "ok", TRUE)}

\* r.URL.Path of the request
RequestPath(r) ==
    CASE r.route = "/health" -> HealthPath
      [] r.route = "/" -> RootPath
      [] r.route = "/users" -> UsersPath
      [] r.route = "/users/{id}" -> UsersPath \o <<47>> \o r.id

\* a step of a handler: a telemetry.Log call, with its level, its message,
\* the lines of err.Error() and its attributes, or a WithContext call on a
\* predefined error
LogStep(level, msg, errLines, attrs) ==
    [op |-> "Log", level |-> level, msg |-> msg, err |-> errLines, attrs |-> attrs]
ContextStep(e, key, value) ==
    [op |-> "WithContext", target |-> e, key |-> key, value |-> value]

\* a domain error as DomainError.Error() prints it (errors.go:41-46): the
\* code, the message, and the cause: "" for none, the text of a plain
\* error, the code of a domain error
DomainErr(code, message, cause) == [code |-> code, message |-> message, cause |-> cause]
NoDomainErr == DomainErr("", "", "")

\* what a service call hands back: the steps it made and its error
ServiceResult(steps, er) == [steps |-> steps, err |-> er]

\* the error result.Error of a failed statement prints as
DatabaseError == "db error"
\* what the database answers with when a statement succeeds: the id it
\* gives a created user, the rows List returns and the rows Count counts
DatabaseAnswers == [id |-> 1, listed |-> 1, counted |-> 1]

\* the attributes the UserService puts on its information records
\* (part_014:47-55, 95-101, 117-124, 148-154, 222-230, 262-270, 287-294,
\* 350-356, 372-378, 402-408)
ServiceAttrs(route, handler, operation, more) ==
    <<AttrString("http.route", route), AttrString("handler", handler),
      AttrString("operation", operation)>> \o more

\* UserService.ListUsers over the Postgres repository (part_014:212-273)
ServiceListUsers(limit, offset) ==
    LET start == LogStep(LevelInfo, "Fetching all users", <<>>,
                         ServiceAttrs("/users", "list_users", "read",
                                      <<AttrInt("limit", limit), AttrInt("offset", offset)>>))
        v == ValidateList(limit, offset)
    IN IF v.err # ""
       THEN ServiceResult(<<start>>,
                          DomainErr("VALIDATION_FAILED", "request validation failed", v.err))
       ELSE ServiceResult(
               <<start,
                 LogStep(LevelInfo, "Users fetched successfully", <<>>,
                         ServiceAttrs("/users", "list_users", "read",
                                      <<AttrInt("users.count", DatabaseAnswers.listed),
                                        AttrInt("total.count", DatabaseAnswers.counted)>>))>>,
               NoDomainErr)

\* UserService.GetUserByID over the Postgres repository (part_014:108-158,
\* postgres/user.go:39-56)
ServiceGetUserByID(idStr, repo) ==
    LET start == LogStep(LevelInfo, "Fetching user by ID", <<>>,
                         ServiceAttrs("/users/{id}", "get_user", "read",
                                      <<AttrString("user.id", idStr)>>))
    IN IF InvalidID(idStr)
       THEN ServiceResult(<<start, ContextStep("ErrInvalidID", "id", idStr)>>,
                          DomainErr("INVALID_ID", "invalid ID", ""))
       ELSE IF repo = "not found"
       THEN ServiceResult(<<start>>, DomainErr("USER_NOT_FOUND", "user not found", ""))
       ELSE ServiceResult(
               <<start,
                 LogStep(LevelInfo, "User fetched successfully", <<>>,
                         ServiceAttrs("/users/{id}", "get_user", "read",
                                      <<AttrString("user.id", Itoa(Atoi(idStr).n))>>))>>,
               NoDomainErr)

\* UserService.CreateUser over the Postgres repository (part_014:37-105,
\* postgres/user.go:25-36, 142-155)
ServiceCreateUser(name, email, repo) ==
    LET start == LogStep(LevelInfo, "Creating user", <<>>,
                         ServiceAttrs("/users", "create_user", "create",
                                      <<AttrString("name", name),
                                        AttrString("email", email)>>))
        u == NewUser(name, email)
        failed == DomainErr("REPOSITORY_ERROR", "failed to create user", DatabaseError)
    IN IF validateUserPayload(name, email) # ""
       THEN ServiceResult(<<start>>,
                          DomainErr("VALIDATION_FAILED", "request validation failed",
                                    validateUserPayload(name, email)))
       ELSE IF ~u.ok
       THEN ServiceResult(<<start>>,
                          DomainErr("INVALID_USER_DATA", "failed to create user entity",
                                    u.err.code))
       ELSE IF repo = "exists"
       THEN ServiceResult(<<start, ContextStep("ErrUserAlreadyExists", "email",
                                               u.user.email)>>,
                          DomainErr("USER_ALREADY_EXISTS", "user already exists", ""))
       ELSE IF repo = "create error"
       THEN ServiceResult(
               <<start,
                 LogStep(LevelError, "Failed to create user", <<failed>>,
                         <<AttrString("name", name), AttrString("email", email)>>)>>,
               DomainErr("REPOSITORY_ERROR", "failed to save user", failed.code))
       ELSE ServiceResult(
               <<start,
                 LogStep(LevelInfo, "User created successfully", <<>>,
                         ServiceAttrs("/users", "create_user", "create",
                                      <<AttrString("user.id", Itoa(DatabaseAnswers.id))>>))>>,
               NoDomainErr)

\* UserService.UpdateUser over the Postgres repository (part_014:276-360,
\* postgres/user.go:39-56, 105-125)
ServiceUpdateUser(idStr, name, email, repo) ==
    LET start == LogStep(LevelInfo, "Updating user", <<>>,
                         ServiceAttrs("/users/{id}", "update_user", "update",
                                      <<AttrString("user.id", idStr)>>))
    IN IF InvalidID(idStr)
       THEN ServiceResult(<<start, ContextStep("ErrInvalidID", "id", idStr)>>,
                          DomainErr("INVALID_ID", "invalid ID", ""))
       ELSE IF validateUserPayload(name, email) # ""
       THEN ServiceResult(<<start>>,
                          DomainErr("VALIDATION_FAILED", "request validation failed",
                                    validateUserPayload(name, email)))
       ELSE IF repo = "not found"
       THEN ServiceResult(<<start>>, DomainErr("USER_NOT_FOUND", "user not found", ""))
       ELSE IF ~NewName(name).ok
       THEN ServiceResult(<<start>>,
                          DomainErr("INVALID_NAME", "failed to update name",
                                    "INVALID_USER_DATA"))
       ELSE IF ~NewEmail(email).ok
       THEN ServiceResult(<<start>>,
                          DomainErr("INVALID_EMAIL", "failed to update email",
                                    "INVALID_USER_DATA"))
       ELSE ServiceResult(
               <<start,
                 LogStep(LevelInfo, "User updated successfully", <<>>,
                         ServiceAttrs("/users/{id}", "update_user", "update",
                                      <<AttrString("user.id", Itoa(Atoi(idStr).n))>>))>>,
               NoDomainErr)

\* UserService.DeleteUser over the Postgres repository (part_014:363-412,
\* postgres/user.go:128-139)
ServiceDeleteUser(idStr, repo) ==
    LET start == LogStep(LevelInfo, "Deleting user", <<>>,
                         ServiceAttrs("/users/{id}", "delete_user", "delete",
                                      <<AttrString("user.id", idStr)>>))
    IN IF InvalidID(idStr)
       THEN ServiceResult(<<start, ContextStep("ErrInvalidID", "id", idStr)>>,
                          DomainErr("INVALID_ID", "invalid ID", ""))
       ELSE IF repo = "not found"
       THEN ServiceResult(<<start>>, DomainErr("USER_NOT_FOUND", "user not found", ""))
       ELSE ServiceResult(
               <<start,
                 LogStep(LevelInfo, "User deleted successfully", <<>>,
                         ServiceAttrs("/users/{id}", "delete_user", "delete",
                                      <<AttrString("user.id", idStr)>>))>>,
               NoDomainErr)

\* the status writeErrorResponseFromDomainError answers an error code with
\* (routes.go:753-775)
ErrorStatus(code) ==
    CASE code = "USER_NOT_FOUND" -> 404
      [] code = "USER_ALREADY_EXISTS" -> 409
      [] code \in {"VALIDATION_FAILED", "INVALID_USER_DATA", "INVALID_EMAIL",
                   "INVALID_NAME", "INVALID_ID"} -> 400
      [] OTHER -> 500

\* what a handler did: its steps before the response and the status it
\* passed to WriteHeader
Handled(steps, status) == [steps |-> steps, status |-> status]

\* a handler of /users after its service call: on an error the record it
\* logs, with the attributes more, and the status of the error; else the
\* status of the success (routes.go:556-566, 583-594, 619-637, 670-689,
\* 713-729)
AfterService(sr, msg, more, success) ==
    IF sr.err.code # ""
    THEN Handled(Append(sr.steps,
                        LogStep(LevelError, msg, <<sr.err>>,
                                <<AttrString("handler", "users")>> \o more)),
                 ErrorStatus(sr.err.code))
    ELSE Handled(sr.steps, success)

\* listUsers (routes.go:522-567); the query has no offset
listUsers(r) ==
    AfterService(ServiceListUsers(IF r.limit > 0 THEN r.limit ELSE DefaultLimit, 0),
                 "Failed to get users", <<AttrString("path", UsersPath)>>, 200)

\* getUserByID (routes.go:570-595)
getUserByID(r) ==
    AfterService(ServiceGetUserByID(r.id, r.repo), "Failed to get user",
                 <<AttrString("path", UsersPath \o <<47>> \o r.id),
                   AttrString("user.id", r.id)>>, 200)

\* createUser (routes.go:598-638)
createUser(r) ==
    IF ~r.json THEN Handled(<<>>, 400)
    ELSE AfterService(ServiceCreateUser(r.name, r.email, r.repo), "Failed to create user",
                      <<AttrString("path", UsersPath), AttrString("user.email", r.email),
                        AttrString("user.name", r.name)>>, 201)

\* updateUser (routes.go:641-690)
updateUser(r) ==
    IF r.id = <<>> \/ ~r.json THEN Handled(<<>>, 400)
    ELSE AfterService(ServiceUpdateUser(r.id, r.name, r.email, r.repo),
                      "Failed to update user",
                      <<AttrString("path", UsersPath \o <<47>> \o r.id),
                        AttrString("user.id", r.id), AttrString("user.email", r.email),
                        AttrString("user.name", r.name)>>, 200)

\* deleteUser (routes.go:693-730)
deleteUser(r) ==
    IF r.id = <<>> THEN Handled(<<>>, 400)
    ELSE AfterService(ServiceDeleteUser(r.id, r.repo), "Failed to delete user",
                      <<AttrString("path", UsersPath \o <<47>> \o r.id),
                        AttrString("user.id", r.id)>>, 200)

\* the record a handler logs when json.Encode cannot write the response
\* (health.go:68-73, routes.go:100-105, 736-739)
EncodeFailed(r, attrs) ==
    IF r.encode THEN <<>>
    ELSE <<LogStep(LevelError,
                   IF r.route \in {"/health", "/"} THEN "Failed to encode response"
                   ELSE "Failed to encode JSON response",
                   <<"encode error">>, attrs)>>

\* UsersHandler.Handle (routes.go:500-519) and writeJSONResponse
\* (routes.go:733-740)
UsersHandle(r) ==
    LET h == CASE r.method = "GET" -> IF r.id # <<>> THEN getUserByID(r) ELSE listUsers(r)
               [] r.method = "POST" -> createUser(r)
               [] r.method = "PUT" -> updateUser(r)
               [] r.method = "DELETE" -> deleteUser(r)
               [] OTHER -> Handled(<<>>, 405)
    IN Handled(h.steps \o EncodeFailed(r, <<>>), h.status)

\* HealthHandler.Handle (health.go:23-74)
HealthHandle(r) ==
    IF r.method # "GET" THEN Handled(<<>>, 405)
    ELSE Handled(<<LogStep(LevelInfo, "Processing health check", <<>>, <<>>)>> \o
                 EncodeFailed(r, <<AttrString("handler", "health"),
                                   AttrString("path", HealthPath)>>),
                 200)

\* RootHandler.Handle (routes.go:66-106) over AppService.GetWelcomeMessage
\* (part_013:59-79), which returns no error
RootHandle(r) ==
    IF r.method # "GET" THEN Handled(<<>>, 405)
    ELSE Handled(<<LogStep(LevelInfo, "Getting welcome message", <<>>,
                           <<AttrString("operation", "get_welcome_message")>>)>> \o
                 EncodeFailed(r, <<AttrString("handler", "root"),
                                   AttrString("path", RootPath)>>),
                 200)

\* the handler the mux hands request r to (routes.go:33-37)
Handle(r) ==
    CASE r.route = "/health" -> HealthHandle(r)
      [] r.route = "/" -> RootHandle(r)
      [] OTHER -> UsersHandle(r)

\* the attributes "method" and "path" of the records of LoggingMiddleware
\* (health.go:126-127, 135-136)
RequestLine(r) ==
    <<[key |-> "method", any |-> r.method], [key |-> "path", any |-> RequestPath(r)]>>

\* the request being handled
CurrentRequest == req.request

\* LoggingMiddleware, first half (health.go:112-130): the server accepts a
\* request and slog.Info hands "Incoming request" to the installed handler;
\* the request settles the steps its handler will make
LoggingMiddleware(r) ==
    /\ mainPc # "exited"
    /\ srvPc = "serving"
    /\ server = "set"
    /\ req.pc = "idle"
    /\ req.n < MaxRequests
    /\ sink' = Append(sink, [level |-> "INFO", msg |-> "Incoming request",
                             attrs |-> RequestLine(r) \o
                                       <<[key |-> "remote_addr", any |-> "client"],
                                         [key |-> "body", any |-> "body"]>>])
    /\ req' = [pc |-> "handling", request |-> r, steps |-> Handle(r).steps,
               status |-> Handle(r).status, k |-> 1, n |-> req.n + 1]
    /\ UNCHANGED <<mainPc, exitBy, defers, signalled, srvPc, kafkaPc, server>>
    /\ UNCHANGED <<logVerbosity, logPc, cur, span, conv, logCalls, last>>
    /\ UNCHANGED <<shutVars, multiVars, gateVars, userVars>>

\* next.ServeHTTP (health.go:132): the next step of the handler or of the
\* service it calls: a telemetry.Log call, or the assignment WithContext
\* makes to the Context map of a predefined error (errors.go:63-69)
ServeHTTP ==
    /\ mainPc # "exited"
    /\ req.pc = "handling"
    /\ req.k <= Len(req.steps)
    /\ LET s == req.steps[req.k] IN
          IF s.op = "Log"
          THEN /\ sink' = MainLog(sink, s.level, s.msg, s.err, s.attrs)
               /\ conv' = conv + MainLogConv(s.level, s.attrs)
               /\ UNCHANGED errCtx
          ELSE /\ errCtx' = WithContext(errCtx, s.target, s.key, s.value)
               /\ UNCHANGED <<sink, conv>>
    /\ req' = [req EXCEPT !.k = @ + 1]
    /\ UNCHANGED <<mainPc, exitBy, defers, signalled, srvPc, kafkaPc, server>>
    /\ UNCHANGED <<logVerbosity, logPc, cur, span, logCalls, last>>
    /\ UNCHANGED <<heap, users, nextID, rmu, callers, crashed, userCalls>>
    /\ UNCHANGED <<shutVars, multiVars, gateVars>>

\* LoggingMiddleware, second half (health.go:134-140): the handler has
\* returned and slog.Info hands "Request completed" to the installed handler
RequestCompleted ==
    /\ mainPc # "exited"
    /\ req.pc = "handling"
    /\ req.k > Len(req.steps)
    /\ sink' = Append(sink, [level |-> "INFO", msg |-> "Request completed",
                             attrs |-> RequestLine(CurrentRequest) \o
                                       <<[key |-> "duration", any |-> "elapsed"],
                                         [key |-> "status",
                                          any |-> req.status],
                                         [key |-> "response_body", any |-> "body"]>>])
    /\ req' = [req EXCEPT !.pc = "idle"]
    /\ UNCHANGED <<mainPc, exitBy, defers, signalled, srvPc, kafkaPc, server>>
    /\ UNCHANGED <<logVerbosity, logPc, cur, span, conv, logCalls, last>>
    /\ UNCHANGED <<shutVars, multiVars, gateVars, userVars>>

----------------------------------------------------------------------------
(* Initial state and next-state relations *)

\* no Log call has run yet
NoCall == [level |-> "", msg |-> "", err |-> "", attrs |-> <<>>,
           recording |-> FALSE, shouldLog |-> FALSE, verbosity |-> 0]
\* a span that has just been started
NewSpan == [status |-> "Unset", description |-> "", errors |-> <<>>, events |-> <<>>]

\* the repository as NewUserRepository builds it (part_002:24-30), and after
\* CreateUser{Al, a@b.io} and CreateUser{Al, c@b.io} have returned
EmptyStore == [heap |-> <<>>, users |-> <<>>, nextID |-> 1]
TwoUsers ==
    [heap |-> <<[id |-> 1, name |-> <<65, 108>>, email |-> <<97, 64, 98, 46, 105, 111>>],
                [id |-> 2, name |-> <<65, 108>>, email |-> <<99, 64, 98, 46, 105, 111>>]>>,
     users |-> <<1, 2>>,
     nextID |-> 3]

\* the state after construction, with the repository holding store
InitWith(store) ==
    /\ setupState = "none"
    /\ setupErr = NoError
    /\ shutdowns = <<>>
    /\ conn = "none"
    /\ globalsSet = FALSE
    /\ slogDefault = "go"
    /\ cfg = NoConfig
    /\ tel = "nil"
    /\ connCreds = "none"
    /\ exporters = [sig \in Signals |-> NoExporter]
    /\ res = NoResource
    /\ telLogVerbosity = 0
    /\ pc = "idle"
    /\ i = 0
    /\ err = Nil
    /\ ctxExpired = FALSE
    /\ calls = 0
    /\ invoked = <<>>
    /\ total = [fn \in Teardowns |-> 0]
    /\ returned = 0
    /\ result = Nil
    /\ logVerbosity = 0
    /\ logPc = "idle"
    /\ cur = NoCall
    /\ span = NewSpan
    /\ sink = <<>>
    /\ conv = 0
    /\ logCalls = 0
    /\ last = [span |-> NewSpan, sink |-> 0, conv |-> 0]
    /\ mhState = "none"
    /\ loggers = <<>>
    /\ derived = <<>>
    /\ delivered = <<>>
    /\ mhRet = NoRet
    /\ mainPc = "setup"
    /\ exitBy = ""
    /\ defers = <<"stop">>
    /\ signalled = FALSE
    /\ srvPc = "none"
    /\ kafkaPc = "none"
    /\ server = "nil"
    /\ req = NoRequest
    /\ gmu = Unlocked
    /\ gor = [g \in Goroutines |-> IdleLog]
    /\ setPc = [pc |-> "idle", arg |-> 0]
    /\ heap = store.heap
    /\ users = store.users
    /\ nextID = store.nextID
    /\ errCtx = [e \in PredefinedErrors |-> <<>>]
    /\ rmu = Unlocked
    /\ callers = [g \in Callers |-> IdleCall]
    /\ userCalls = 0
    /\ crashed = FALSE

Init == InitWith(EmptyStore)

\* the service is called on a new repository or on one with two users
UserInit == \E store \in {EmptyStore, TwoUsers} : InitWith(store)

\* the configurations that differ in what the shutdown sequence sees
ShutdownConfigs ==
    {c \in Configs : /\ ~c.Insecure /\ c.Username = <<>> /\ c.Password = <<>>
                     /\ c.ServiceNamespace = "" /\ c.LogVerbosity = 0}

Next ==
    \/ \E c \in ShutdownConfigs, f \in FailPoints : Setup(c, f)
    \/ ShutdownCall
    \/ TeardownInvoke
    \/ \E r \in {Nil, DeadlineExceeded} \cup {Leaf(f) : f \in Teardowns} :
          TeardownReturn(r)
    \/ ShutdownReturn
    \/ DeadlineExpires

Spec == Init /\ [][Next]_vars

SetupNext ==
    \E c \in Configs, f \in FailPoints : Setup(c, f)

SetupSpec == Init /\ [][SetupNext]_vars

LogNext ==
    \/ \E v \in VerbosityArgs : SetLogVerbosity(v)
    \/ \E l \in LogLevels, m \in Messages, e \in Errs, a \in AttrLists, rec \in BOOLEAN :
          LogCall(l, m, e, a, rec)
    \/ LogBody

LogSpec == Init /\ [][LogNext]_vars

MultiNext ==
    \/ \E ls \in LoggerLists : NewMultiHandler(ls)
    \/ \E l \in SlogLevels : EnabledCall(l)
    \/ \E r \in Records : HandleCall(r)
    \/ \E a \in AttrArgs : WithAttrsCall(a)
    \/ \E g \in GroupArgs : WithGroupCall(g)

MultiSpec == Init /\ [][MultiNext]_vars

\* the configuration main is run with: one protocol, one log output
MainConfigs == {c \in ShutdownConfigs : c.Protocol = "grpc" /\ c.LogOutput = "stdout"}

\* what a teardown returns in the deferred shutdown of main
MainTeardownResults == {Nil, DeadlineExceeded}

\* main and its goroutines, from the call of telemetry.Setup to the end of
\* the process
MainNext ==
    \/ \E c \in MainConfigs, f \in FailPoints : Setup(c, f)
    \/ MainSetupReturns
    \/ \E ok \in BOOLEAN : MainInit(ok)
    \/ MainFatalExit
    \/ ServerStarting
    \/ StartWithAddr
    \/ \E e \in {"", "EADDRINUSE", "listen error"} : ListenAndServe(e)
    \/ ServerClosed
    \/ ServerFails
    \/ ServerExit
    \/ KafkaHandle
    \/ KafkaProcessed
    \/ KafkaCtxDone
    \/ KafkaClientClosed
    \/ KafkaConsumerError
    \/ Interrupt
    \/ MainInterrupted
    \/ Stop
    \/ \E stopOk \in BOOLEAN : StopReturns(stopOk)
    \/ \E r \in Requests : LoggingMiddleware(r)
    \/ ServeHTTP
    \/ RequestCompleted
    \/ MainDeferredShutdown
    \/ mainPc = "returning" /\ TeardownInvoke
    \/ \E r \in MainTeardownResults : mainPc = "returning" /\ TeardownReturn(r)
    \/ mainPc = "returning" /\ ShutdownReturn
    \/ mainPc = "returning" /\ DeadlineExpires
    \/ MainShutdownReturns
    \/ \E closeOk \in BOOLEAN : MainDeferredClose(closeOk)
    \/ MainExit

MainSpec == Init /\ [][MainNext]_vars

\* goroutines that call Log while another one calls SetLogVerbosity
GateNext ==
    \/ \E g \in Goroutines, l \in GoLevels : GoLogCall(g, l)
    \/ \E g \in Goroutines : GoRLock(g)
    \/ \E g \in Goroutines : GoRead(g)
    \/ \E g \in Goroutines : GoConvert(g)
    \/ \E g \in Goroutines : GoEmit(g)
    \/ \E v \in GoVerbosityArgs : SetLock(v)
    \/ SetStore

GateSpec == Init /\ [][GateNext]_vars

\* UserService calls of the goroutines, step by step
UserNext ==
    \/ \E g \in Callers, p \in UserPayloads : CreateUser(g, p.name, p.email)
    \/ \E g \in Callers, id \in IdStrs : GetUserByID(g, id)
    \/ \E g \in Callers, e \in ReqEmails : GetUserByEmail(g, e)
    \/ \E g \in Callers, r \in ListRequests : ListUsers(g, r.limit, r.offset)
    \/ \E g \in Callers, r \in UpdateRequests :
          UpdateUser(g, r.idStr, r.payload.name, r.payload.email)
    \/ \E g \in Callers, id \in IdStrs : DeleteUser(g, id)
    \/ \E g \in Callers : ExistsByEmail(g)
    \/ \E g \in Callers : Create(g)
    \/ \E g \in Callers : GetByID(g)
    \/ \E g \in Callers, id \in {0} \cup DOMAIN users : GetByEmail(g, id)
    \/ \E g \in Callers : List(g)
    \/ \E g \in Callers : Count(g)
    \/ \E g \in Callers : UpdateName(g)
    \/ \E g \in Callers : UpdateEmail(g)
    \/ \E g \in Callers : Update(g)
    \/ \E g \in Callers, id \in DOMAIN users : UpdateScan(g, id)
    \/ \E g \in Callers : UpdateConflict(g)
    \/ \E g \in Callers : UpdateStore(g)
    \/ \E g \in Callers : Delete(g)
    \/ \E g \in Callers : WithContextBegin(g)
    \/ \E g \in Callers, o \in RaceOutcomes : WithContextEnd(g, o)
    \/ \E g \in Callers : ErrorReturn(g)

UserSpec == UserInit /\ [][UserNext]_vars

----------------------------------------------------------------------------
(* Properties of the shutdown closure *)

\* the teardowns invoked by the call, and what each returned, in order
CallFns == [k \in 1..Len(invoked) |-> invoked[k].fn]
CallRets == [k \in 1..Len(invoked) |-> invoked[k].ret]
\* how often the call invoked the teardown fn
TimesInvoked(fn) == Cardinality({k \in 1..Len(invoked) : invoked[k].fn = fn})
\* a shutdown(ctx) call has returned; invoked and result describe it
CallDone == pc = "idle" /\ returned >= 1

\* C1: after a successful Setup, which registers tracer, meter, logger in
\* that order, a shutdown(ctx) call that has returned invoked logger, meter,
\* tracer in that order, and a teardown is invoked only after every earlier
\* invocation has returned.
C1_ReverseOrder ==
    /\ (CallDone /\ setupState = "ok") => CallFns = <<"logger", "meter", "tracer">>
    /\ \A k \in 1..Len(invoked) : invoked[k].ret = Pending => k = Len(invoked)

C1_Witness ==
    /\ setupState = "ok"
    /\ shutdowns = <<"tracer", "meter", "logger">>
    /\ CallDone
    /\ returned = 1
    /\ CallFns = <<"logger", "meter", "tracer">>

\* C2: a shutdown(ctx) call that has returned invoked every registered
\* teardown exactly once, whichever of them returned an error.
C2_AllInvoked ==
    CallDone =>
        /\ Len(invoked) = Len(shutdowns)
        /\ \A k \in 1..Len(shutdowns) : TimesInvoked(shutdowns[k]) = 1

C2_Witness ==
    /\ CallDone
    /\ Len(shutdowns) = 3
    /\ CallRets[1] = Leaf("logger")
    /\ CallRets[2] = Leaf("meter")
    /\ TimesInvoked("tracer") = 1

\* C3: the value a shutdown(ctx) call returns holds exactly the non-nil
\* errors its teardowns returned, in invocation order; it is nil exactly
\* when all of them returned nil; it is returned once per call and only
\* after the last registered teardown has returned.
C3_Aggregate ==
    /\ returned <= calls
    /\ pc = "idle" => returned = calls
    /\ CallDone =>
          /\ Flatten(result) = NonNil(CallRets)
          /\ \A k \in 1..Len(invoked) : CallRets[k] # Nil => Is(result, CallRets[k])
          /\ result = Nil <=> \A k \in 1..Len(invoked) : CallRets[k] = Nil
          /\ Len(invoked) = Len(shutdowns)
          /\ \A k \in 1..Len(invoked) : CallRets[k] # Pending

C3_Witness ==
    /\ CallDone
    /\ CallFns = <<"logger", "meter", "tracer">>
    /\ CallRets = <<Nil, Leaf("meter"), Leaf("tracer")>>
    /\ Flatten(result) = <<Leaf("meter"), Leaf("tracer")>>

\* C4: when a teardown of a shutdown(ctx) call reported the deadline error,
\* the call still invoked every teardown that follows it in the reverse
\* order, and the value the call returned contains the deadline error.
C4_DeadlineContinues ==
    (CallDone /\ \E k \in 1..Len(invoked) : CallRets[k] = DeadlineExceeded) =>
        /\ CallFns = [k \in 1..Len(shutdowns) |-> shutdowns[Len(shutdowns) + 1 - k]]
        /\ Is(result, DeadlineExceeded)

C4_Witness ==
    /\ CallDone
    /\ ctxExpired
    /\ CallFns = <<"logger", "meter", "tracer">>
    /\ CallRets[1] = DeadlineExceeded
    /\ Is(result, DeadlineExceeded)

\* the error a coordinator that refuses a second run would return
ErrAlreadyShutDown == Leaf("already shut down")

\* C5: the second shutdown(ctx) call either succeeds without doing anything
\* or returns the already-shut-down error.
C5_SecondCallNoOp ==
    (CallDone /\ returned = 2) =>
        \/ result = Nil /\ invoked = <<>>
        \/ result = ErrAlreadyShutDown

\* C6: over all shutdown(ctx) calls, a registered teardown is invoked at
\* most once.
C6_ConsumedOnce ==
    \A k \in 1..Len(shutdowns) : total[shutdowns[k]] <= 1

\* C7: with the gRPC protocol a shutdown(ctx) call that has returned ran
\* logger, meter, tracer and then the closer of the shared connection, which
\* is closed afterwards.
C7_ConnClosedLast ==
    (setupState = "ok" /\ conn # "none" /\ CallDone) =>
        /\ CallFns = <<"logger", "meter", "tracer", "conn">>
        /\ conn = "closed"

\* the provider whose Shutdown releases the exporter of a signal
ProviderOf(sig) ==
    CASE sig = "trace" -> "tracer"
      [] sig = "metric" -> "meter"
      [] sig = "log" -> "logger"

\* C28: after a Setup that returned an error, a shutdown(ctx) call that has
\* returned has released everything Setup had opened: the provider Shutdown
\* over each exporter Setup built was invoked, and the gRPC connection, if
\* one was opened, is closed.
C28_FailedSetupReleasesAll ==
    (setupState = "failed" /\ CallDone) =>
        /\ \A sig \in Signals :
              exporters[sig].built => TimesInvoked(ProviderOf(sig)) >= 1
        /\ conn # "none" => conn = "closed"

----------------------------------------------------------------------------
(* Properties of main *)

\* C27: when the process has ended after a successful telemetry.Setup, the
\* shutdown function Setup returned was called and has returned.
C27_EveryExitShutsDown ==
    (mainPc = "exited" /\ setupState = "ok") => (calls >= 1 /\ returned >= 1)

----------------------------------------------------------------------------
(* Properties of Log *)

\* the gate table: the lowest verbosity level at which a severity is logged
GateMinLevel(level) ==
    CASE level = LevelError -> 0
      [] level = LevelWarn -> 1
      [] OTHER -> 2

\* a Log call has run to its end; cur and last describe it
LogDone == logPc = "idle" /\ logCalls >= 1
\* the call handed one record to the sink / the call left the sink alone
Emitted == Len(sink) = last.sink + 1
NotEmitted == Len(sink) = last.sink

\* C8: at a verbosity level in {0,1,2}, a Log call hands a record to the
\* sink exactly when the level reaches the minimum of its severity in the
\* gate table (error 0, warning 1, info and unrecognized 2), and it hands
\* over at most one record.
C8_GateTable ==
    (LogDone /\ cur.verbosity \in 0..2) =>
        /\ Emitted <=> cur.verbosity >= GateMinLevel(cur.level)
        /\ Emitted \/ NotEmitted

C8_Witness ==
    /\ LogDone
    /\ logCalls = 2
    /\ cur.verbosity = 1
    /\ cur.level = LevelWarn
    /\ Emitted
    /\ sink[Len(sink)].level = "WARN"

\* C9: a Log call that the gate rejects (a warning at level 0, an info or
\* unrecognized severity at level 0 or 1) converts no attributes and hands
\* nothing to the sink.
C9_NoWorkWhenRejected ==
    (LogDone /\ cur.verbosity \in 0..2 /\ cur.verbosity < GateMinLevel(cur.level)) =>
        /\ conv = last.conv
        /\ NotEmitted

C9_Witness ==
    /\ LogDone
    /\ cur.verbosity = 0
    /\ cur.level = LevelWarn
    /\ cur.attrs # <<>>
    /\ conv = last.conv
    /\ NotEmitted

\* C10: the span a Log call leaves behind is the span the same call would
\* have left behind at each of the verbosity levels 0, 1 and 2.
C10_SpanIndependentOfVerbosity ==
    LogDone =>
        \A v \in 0..2 :
            span = SpanAfterLog(last.span,
                                [cur EXCEPT !.verbosity = v,
                                            !.shouldLog = shouldLogMessage(cur.level, v)])

C10_Witness ==
    /\ LogDone
    /\ cur.recording
    /\ cur.verbosity = 0
    /\ cur.level = LevelInfo
    /\ NotEmitted
    /\ span.events = Append(last.span.events, [name |-> cur.msg, attrs |-> cur.attrs])

\* C11: a Log call of severity error on a ctx with a recording span leaves
\* the span status at Error with the message as description, whatever the
\* verbosity level; it records err with the attributes exactly when err is
\* non-nil, and it adds no event.
C11_ErrorMarksSpan ==
    (LogDone /\ cur.level = LevelError /\ cur.recording) =>
        /\ span.status = "Error"
        /\ span.description = cur.msg
        /\ span.errors = IF cur.err # NoErr
                         THEN Append(last.span.errors, [err |-> cur.err, attrs |-> cur.attrs])
                         ELSE last.span.errors
        /\ span.events = last.span.events

C11_Witness ==
    /\ LogDone
    /\ cur.level = LevelError
    /\ cur.recording
    /\ cur.err = NoErr
    /\ cur.verbosity = 0
    /\ last.span.status = "Unset"
    /\ span.status = "Error"
    /\ span.errors = <<>>

\* C22: a Log call of a severity other than error on a ctx with a recording
\* span adds one event, named by the message and carrying the attributes,
\* and leaves status, description and recorded errors of the span as they
\* were, also when err is non-nil.
C22_NonErrorAddsOneEvent ==
    (LogDone /\ cur.level # LevelError /\ cur.recording) =>
        /\ span.events = Append(last.span.events, [name |-> cur.msg, attrs |-> cur.attrs])
        /\ span.status = last.span.status
        /\ span.description = last.span.description
        /\ span.errors = last.span.errors

C22_Witness ==
    /\ LogDone
    /\ cur.level = LevelWarn
    /\ cur.recording
    /\ cur.err # NoErr
    /\ cur.attrs # <<>>
    /\ Len(span.events) = Len(last.span.events) + 1
    /\ span.events[Len(span.events)] = [name |-> cur.msg, attrs |-> cur.attrs]
    /\ span.status = "Unset"
    /\ span.errors = <<>>

\* the record the call handed to the sink carries the description of err
\* under the key "error"
CarriesError ==
    LET r == sink[Len(sink)] IN
    \E k \in 1..Len(r.attrs) : r.attrs[k] = [key |-> "error", any |-> cur.err]

\* C23: a record a Log call hands to the sink carries the description of
\* err exactly when err is non-nil, at every severity.
C23_RecordCarriesErr ==
    (LogDone /\ Emitted) => (CarriesError <=> cur.err # NoErr)

\* C12: the verbosity level held by the gate is always 0, 1 or 2.
C12_VerbosityInRange == GetLogVerbosity \in 0..2

----------------------------------------------------------------------------
(* Properties of concurrent Log calls *)

\* what a step must satisfy: a reader and the writer never hold mu together;
\* the level a Log call reads is the level of the gate at that step, read
\* while no writer holds mu; a call that has ended converted the attributes
\* exactly if it emitted, and emitted exactly if the level it read reaches
\* the minimum of its severity
GateStep ==
    /\ ~(gmu.writer /\ gmu.readers > 0)
    /\ \A g \in Goroutines :
          (gor[g].pc = "rlocked" /\ gor'[g].pc = "gated") =>
              /\ gor'[g].verbosity = logVerbosity
              /\ ~gmu.writer
    /\ \A g \in Goroutines :
          gor'[g].pc = "done" =>
              /\ gor'[g].converted = 1 <=> gor'[g].emitted = 1
              /\ gor'[g].emitted = 1 <=>
                    gor'[g].verbosity >= GateMinLevel(gor'[g].level)
              /\ gor'[g].emitted \in {0, 1}

\* C25: under every interleaving of Log and SetLogVerbosity calls, access to
\* the level is serialized by mu, each Log call reads the level once, at a
\* step of the call, and converts and emits, or does neither, as the gate
\* table says for the level it read.
C25_ReadOnceSerialized == [][GateStep]_vars

\* a call read level 2 and emitted an info record although the level was
\* set to 0 before it emitted, while another call read level 0
C25_Witness ==
    /\ gor[1].pc = "done"
    /\ gor[1].level = LevelInfo
    /\ gor[1].verbosity = 2
    /\ gor[1].converted = 1
    /\ gor[1].emitted = 1
    /\ logVerbosity = 0
    /\ gor[2].pc = "gated"
    /\ gor[2].verbosity = 0
    /\ ~gor[2].shouldLog

----------------------------------------------------------------------------
(* Properties of the user repository *)

\* the stored user with the id
StoredUser(id) == heap[users[id]]

\* no service call is running
NoCallRunning == \A g \in Callers : callers[g].pc \in {"idle", "done"}

\* C29: whenever no service call is running, no two stored users have the
\* same e-mail address, and the user of an UpdateUser call that was rejected
\* because the address is taken does not have that address.
C29_EmailsUnique ==
    NoCallRunning =>
        /\ \A a \in DOMAIN users, b \in DOMAIN users :
              a # b => StoredUser(a).email # StoredUser(b).email
        /\ \A g \in Callers :
              (/\ callers[g].op = "UpdateUser"
               /\ callers[g].pc = "done"
               /\ callers[g].err.code = "USER_ALREADY_EXISTS"
               /\ callers[g].id \in DOMAIN users) =>
                  StoredUser(callers[g].id).email # NewEmail(callers[g].email).email

\* the goroutines that are assigning to the Context map of error e
Writers(e) ==
    {g \in Callers : callers[g].pc = "writing" /\ callers[g].target = e}

\* C30: the Context map of a predefined error is never changed, no two
\* calls assign to the same map at the same time, the process is not
\* stopped by the runtime, and the predefined error a caller holds carries
\* the context of its own call only.
C30_PredefinedErrorsUntouched ==
    /\ \A e \in PredefinedErrors : errCtx[e] = <<>>
    /\ \A e \in PredefinedErrors : Cardinality(Writers(e)) <= 1
    /\ ~crashed
    /\ \A g \in Callers :
          (callers[g].pc = "done" /\ callers[g].err.predefined # "") =>
              errCtx[callers[g].err.predefined] = (callers[g].key :> callers[g].value)

\* two repository reads that missed assign to the Context map of
\* ErrUserNotFound at the same time, both holding the read lock
RaceReached ==
    /\ Cardinality(Writers("ErrUserNotFound")) = 2
    /\ rmu.readers = 2

----------------------------------------------------------------------------
(* Properties of Setup *)

\* the 6-bit value of a character of the standard base64 alphabet
Base64Value(ch) == CHOOSE k \in 0..63 : Base64Char(k) = ch

RECURSIVE DecodeString(_)
\* the bytes a padded base64 text stands for
DecodeString(t) ==
    IF Len(t) < 4 THEN <<>>
    ELSE LET a == Base64Value(t[1])
             b == Base64Value(t[2])
         IN IF t[3] = 61 THEN <<a * 4 + b \div 16>>
            ELSE IF t[4] = 61
            THEN <<a * 4 + b \div 16, (b % 16) * 16 + Base64Value(t[3]) \div 4>>
            ELSE <<a * 4 + b \div 16,
                   (b % 16) * 16 + Base64Value(t[3]) \div 4,
                   (Base64Value(t[3]) % 4) * 64 + Base64Value(t[4])>>
                 \o DecodeString(SubSeq(t, 5, Len(t)))

\* C17: with the HTTP protocol and a user name and a password configured,
\* every exporter Setup built carries an Authorization header that is
\* "Basic " followed by text that base64-decodes to username ":" password,
\* and a successful Setup built all three exporters.
C17_BasicAuthOnAllExporters ==
    (setupState # "none" /\ Protocol(cfg.Protocol) = "http"
        /\ cfg.Username # <<>> /\ cfg.Password # <<>>) =>
        /\ setupState = "ok" => \A sig \in Signals : exporters[sig].built
        /\ \A sig \in Signals :
              exporters[sig].built =>
                  LET auth == exporters[sig].authorization IN
                  /\ Len(auth) > 6
                  /\ SubSeq(auth, 1, 6) = BasicPrefix
                  /\ DecodeString(SubSeq(auth, 7, Len(auth)))
                        = cfg.Username \o <<58>> \o cfg.Password

\* user "u", password "p": the header is "Basic dTpw" on all three exporters
C17_Witness ==
    /\ setupState = "ok"
    /\ cfg.Protocol = "http"
    /\ cfg.Username = <<117>>
    /\ cfg.Password = <<112>>
    /\ \A sig \in Signals :
          exporters[sig].authorization = BasicPrefix \o <<100, 84, 112, 119>>

\* C18: the gRPC connection is opened without transport security exactly
\* when the configuration says insecure.
C18_PlaintextIffInsecure ==
    connCreds # "none" => (connCreds = "insecure" <=> cfg.Insecure)

\* C19: a Setup that failed returned a nil handle and an error, and
\* installed neither the global providers nor a default log sink.
C19_NothingInstalledOnFailure ==
    setupState = "failed" =>
        /\ tel = "nil"
        /\ setupErr # NoError
        /\ ~globalsSet
        /\ slogDefault = "go"

\* C20: the error of a Setup that failed on the exporter of a signal names
\* that signal in its message and carries the cause.
C20_ExporterErrorNamesSignal ==
    (setupState = "failed" /\ setupErr.cause \in Signals) =>
        \E k \in 1..Len(setupErr.msg) : setupErr.msg[k] = setupErr.cause

\* the resource carries an attribute with the key k
HasAttribute(k) == \E a \in res : a.Key = k

\* C21: the resource Setup built has the service.namespace attribute exactly
\* when the configured ServiceNamespace is not empty.
C21_NamespaceOmittedWhenEmpty ==
    res # NoResource =>
        (HasAttribute("service.namespace") <=> cfg.ServiceNamespace # "")

\* C26: after a successful Setup the verbosity level of the gate is the
\* configured LogVerbosity, which is the LogVerbosity of the handle.
C26_HandleHoldsGateLevel ==
    setupState = "ok" =>
        /\ telLogVerbosity = cfg.LogVerbosity
        /\ GetLogVerbosity = telLogVerbosity

----------------------------------------------------------------------------
(* Properties of multiHandler *)

\* C13: Enabled returns true exactly when at least one child is enabled for
\* the level; with no child or only disabled children it returns false.
C13_EnabledIffAnyChild ==
    mhRet.op = "Enabled" =>
        (mhRet.enabled <=>
            \E k \in 1..Len(loggers) : ChildEnabled(loggers[k], mhRet.level))

C13_Witness ==
    /\ mhRet.op = "Enabled"
    /\ Len(loggers) = 2
    /\ ~ChildEnabled(loggers[1], mhRet.level)
    /\ ChildEnabled(loggers[2], mhRet.level)
    /\ mhRet.enabled

\* C14: Handle calls Handle on every child, in the order of the children,
\* with the record it was given, also on the children after one that failed.
C14_DeliversToAll ==
    mhRet.op = "Handle" =>
        /\ Len(delivered) = Len(loggers)
        /\ \A k \in 1..Len(loggers) :
              /\ delivered[k].child = loggers[k].name
              /\ delivered[k].record = mhRet.record

C14_Witness ==
    /\ mhRet.op = "Handle"
    /\ Len(loggers) = 2
    /\ delivered[1].err # Nil
    /\ delivered[2].child = loggers[2].name
    /\ delivered[2].record = mhRet.record

\* C24: a Handle call for a level at least one child is enabled for calls
\* Handle on every child with the record, the children that are not enabled
\* for the level included.
C24_DeliversToDisabledChild ==
    (mhRet.op = "Handle" /\ Enabled(loggers, mhRet.record.level)) =>
        /\ Len(delivered) = Len(loggers)
        /\ \A k \in 1..Len(loggers) :
              ~ChildEnabled(loggers[k], mhRet.record.level) =>
                  \E j \in 1..Len(delivered) :
                      /\ delivered[j].child = loggers[k].name
                      /\ delivered[j].record = mhRet.record

\* child 1 enabled, child 2 disabled: Enabled is true, both get the record
C24_Witness ==
    /\ mhRet.op = "Handle"
    /\ Len(loggers) = 2
    /\ ChildEnabled(loggers[1], mhRet.record.level)
    /\ ~ChildEnabled(loggers[2], mhRet.record.level)
    /\ Enabled(loggers, mhRet.record.level)
    /\ Len(delivered) = 2
    /\ delivered[1].record = mhRet.record
    /\ delivered[2] = [child |-> loggers[2].name, record |-> mhRet.record,
                       err |-> ChildHandle(loggers[2], mhRet.record)]

\* C15: when the Handle of a child failed, Handle returns a non-nil error
\* that contains the error of every child that failed.
C15_HandleReturnsChildErrors ==
    mhRet.op = "Handle" =>
        \A k \in 1..Len(delivered) :
            delivered[k].err # Nil =>
                /\ mhRet.err # Nil
                /\ Is(mhRet.err, delivered[k].err)

\* C16: WithAttrs and WithGroup return a handler with as many children as
\* the original, child k being child k of the original with WithAttrs or
\* WithGroup applied, and leave the children of the original as they were.
C16_StructuralCopy ==
    /\ mhRet.op = "WithAttrs" =>
          /\ Len(derived) = Len(mhRet.before)
          /\ \A k \in 1..Len(derived) :
                derived[k] = ChildWithAttrs(mhRet.before[k], mhRet.attrs)
    /\ mhRet.op = "WithGroup" =>
          /\ Len(derived) = Len(mhRet.before)
          /\ \A k \in 1..Len(derived) :
                derived[k] = ChildWithGroup(mhRet.before[k], mhRet.group)
    /\ mhRet.op # "" => loggers = mhRet.before

C16_Witness ==
    /\ mhRet.op = "WithAttrs"
    /\ mhRet.attrs # <<>>
    /\ Len(loggers) = 2
    /\ Len(derived) = 2
    /\ derived[2].name = loggers[2].name
    /\ derived[2].ops = <<[op |-> "attrs", attrs |-> mhRet.attrs, group |-> ""]>>
    /\ loggers[2].ops = <<>>
====
